---- MODULE Spec2Model ----
(***************************************************************************)
(* Namespace ownership validation and namespace workflow planning of the   *)
(* IAM client (src/src/iam.ts).  A namespace is a sequence of labels,      *)
(* leftmost label first: "r1.roles.o.iam" is <<"r1","roles","o","iam">>,   *)
(* so that split(".") / join(".") are the sequence itself, the parent of a *)
(* namespace is its Tail and `${label}.${namespace}` is <<label>> \o ns.   *)
(***************************************************************************)
EXTENDS Integers, Sequences, FiniteSets, TLC

VARIABLES
    address,          \* IAMBase._address: connected address or Undefined
    runningInBrowser, \* IAMBase._runningInBrowser
    ensRegistry,      \* IAMBase._ensRegistry is initialised
    cacheClient,      \* IAMBase._cacheClient is configured
    cacheApps,        \* cache server: namespace -> applications it reports
    owner,            \* ledger registry: namespace -> owner address
    names,            \* ledger: namespaces with a registered reverse name
    defs,             \* ledger: namespaces with a "metadata" definition
    eventLog,         \* ledger: names found by scanning historical events
    pc,               \* position of the one call of the behaviour
    call,             \* the operation called and its arguments
    steps,            \* the step list the call built
    next,             \* index of the step the executing loop runs next
    inFlight,         \* indices of the steps started and not yet settled
    applied,          \* primitive mutations the call has applied so far
    returned,         \* value the call returned (a step list or a result list)
    error,            \* error the call threw
    lookups,          \* namespaces whose owner the call has looked up
    _signer,          \* SignerService._signer: the connected wallet
    _providerType,    \* SignerService._providerType
    _address,         \* SignerService._address
    _chainName,       \* SignerService._chainName
    _publicKey,       \* SignerService._publicKey
    _identityToken,   \* SignerService._identityToken
    executionEnv,     \* executionEnvironment(): "BROWSER" or "NODE"
    localStorage,     \* localStorage.getItem(PUBLIC_KEY)
    blockNumber,      \* height the provider reports
    signRequests,     \* signature requests the wallet has received
    session,          \* init cycles after the first (reconnects)
    sessionCalls,     \* publicKeyAndIdentityToken calls of this session
    last,             \* the last signer service call and its outcome
    _did,             \* IAMBase._did: the caller's DID or Undefined
    _natsConnection,  \* IAMBase._natsConnection is established
    _jsonCodec,       \* IAMBase._jsonCodec is set
    _userClaims,      \* IAMBase._userClaims is initialised
    _issuerClaims,    \* IAMBase._issuerClaims is initialised
    published,        \* messages published on the NATS connection
    mailbox,          \* messages posted to the cache server
    uuids,            \* request ids uuid() has generated
    claimCall,        \* the last claims exchange call and its outcome
    subscription,     \* the NATS subscription of subscribeToMessages
    inbound,          \* messages queued on the subscription
    arrived,          \* every message that reached the subscription
    handled,          \* arguments of the messageHandler invocations
    scan,             \* the last getSubdomains call and what it returned
    _resolver,        \* IAMBase._resolver (DID resolver) is set
    _ensResolver,     \* IAMBase._ensResolver is set
    cacheReply,       \* how the cache server answers a read
    readCall,         \* the last read operation, its reads and its outcome
    tasks,            \* the overlapping publicKeyAndIdentityToken calls
    _walletEventListeners, \* SignerService._walletEventListeners
    _servicesInitializers, \* SignerService._servicesInitializers
    cycles,           \* the init() runs started by connect and by handlers
    _owner,           \* AssetsService._owner
    _registryDid,     \* DidRegistry._did
    registration,     \* the registerAsset call and its polling
    _jwt,             \* IAMBase._jwt is set
    _document,        \* IAMBase._document is set
    ipfsStore,        \* tokens saved in the content store
    service,          \* service endpoints written to the DID document
    publication,      \* the last publishPublicClaim call and its outcome
    documentUpdate    \* the DidRegistry.updateDocument call and its outcome

documentVars == <<_resolver, _ensResolver, cacheReply, readCall>>
readVars == <<scan, documentVars>>
overlapVars == <<tasks>>
sessionVars == <<_walletEventListeners, _servicesInitializers, cycles,
                 _owner, _registryDid>>
publishVars == <<_jwt, _document, ipfsStore, service, publication>>
operationVars == <<registration, publishVars, documentUpdate>>
serviceVars == <<overlapVars, sessionVars, operationVars>>
registryVars ==
    <<address, runningInBrowser, ensRegistry, cacheClient, cacheApps,
      owner, names, defs, eventLog, pc, call, steps, next, inFlight,
      applied, returned, error, lookups, readVars>>
namespaceVars == <<registryVars, serviceVars>>
subscriptionVars == <<subscription, inbound, arrived, handled>>
exchangeVars == <<_did, _natsConnection, _jsonCodec, _userClaims,
                  _issuerClaims, published, mailbox, uuids, claimCall,
                  subscriptionVars>>
iamVars == <<namespaceVars, exchangeVars>>
signerVars == <<_signer, _providerType, _address, _chainName, _publicKey,
                _identityToken, executionEnv, localStorage, blockNumber,
                signRequests, session, sessionCalls, last>>
vars == <<iamVars, signerVars>>

----------------------------------------------------------------------------
(* Bounds *)

MaxLog == 2        \* longest event log Init enumerates
MaxForeign == 1    \* most namespaces Init gives to another owner
MaxBlock == 2      \* highest block height the provider reports
MaxCalls == 2      \* most identity token calls of one signer session
MaxSessions == 1   \* most reconnects of one behaviour
MaxIssuers == 2    \* longest issuer list of a claim request
MaxRequests == 2   \* most claims exchange calls of one behaviour
MaxInbound == 2    \* most messages that reach one subscription
MaxScan == 3       \* longest event log a subdomain scan is given
MaxTasks == 2      \* most publicKeyAndIdentityToken calls that overlap
MaxEvents == 2     \* most connect calls and wallet events of one behaviour
MaxSaved == 2      \* most tokens saved in the content store

----------------------------------------------------------------------------
(* Constants of the program and the universe of the model *)

Roles == "roles"
Application == "apps"
Organization == "org"
ENSNamespaceTypes == {Roles, Application, Organization}

emptyAddress == "0x0"
Undefined == "undefined"
Me == "0xMe"
Other == "0xOther"
NewOwner == "0xNew"

Iam == <<"iam">>
Org == <<"o">> \o Iam
OrgRoles == <<Roles>> \o Org
OrgApps == <<Application>> \o Org
App == <<"a">> \o OrgApps
AppRoles == <<Roles>> \o App
AppApps == <<Application>> \o App
OrgRole1 == <<"r1">> \o OrgRoles
OrgRole2 == <<"r2">> \o OrgRoles
AppRole1 == <<"r1">> \o AppRoles
NewOrg == <<"n">> \o Iam
NewApp == <<"b">> \o OrgApps
NewRole == <<"r3">> \o OrgRoles

\* namespaces whose owner Init chooses
VPaths == {Iam, Org, OrgRoles, OrgApps, App, AppRoles, OrgRole1}
\* namespaces that exist and belong to the connected address in Init
MinePaths == {OrgRole2, AppRole1}
\* every namespace the registry of the model knows
AllPaths == VPaths \cup MinePaths \cup
            {NewOrg, <<Roles>> \o NewOrg, <<Application>> \o NewOrg,
             NewApp, <<Roles>> \o NewApp, NewRole, AppApps}
\* names an event scan can find
AppChild == <<"x">> \o AppApps
EventNames == {OrgRole1, OrgRole2, App, AppRole1, OrgApps, AppChild}

Reverse(s) == [i \in 1..Len(s) |-> s[Len(s) + 1 - i]]

NoDup(s) == \A i, j \in 1..Len(s) : i # j => s[i] # s[j]

SeqsUpTo(S, n) == UNION {[1..k -> S] : k \in 0..n}

Range(s) == {s[i] : i \in 1..Len(s)}

NoCall == [op |-> "none", namespace |-> <<>>, type |-> "none",
           newOwner |-> Undefined, returnSteps |-> FALSE]
NoError == [name |-> "none", namespace |-> <<>>, notOwnedNamespaces |-> <<>>,
            step |-> 0, info |-> <<>>]

Err(name) == [name |-> name, namespace |-> <<>>, notOwnedNamespaces |-> <<>>,
             step |-> 0, info |-> <<>>]

----------------------------------------------------------------------------
(* Reads *)

\* IAMBase.getOwner: the registry's owner of a namespace
getOwner(namespace) ==
    IF namespace \in DOMAIN owner THEN owner[namespace] ELSE emptyAddress

EndsWith(name, domain) ==
    /\ Len(name) >= Len(domain)
    /\ SubSeq(name, Len(name) - Len(domain) + 1, Len(name)) = domain

\* IAMBase.getFilteredDomainsFromEvent: the names of the event log that lie
\* under the domain, in log order
getFilteredDomainsFromEvent(domain) ==
    SelectSeq(eventLog, LAMBDA name : EndsWith(name, domain))

\* variant of the loop: the key is the leftmost label of the name
RECURSIVE ScanSubdomains_Leftmost(_, _, _)
ScanSubdomains_Leftmost(domains, role, subdomains) ==
    IF domains = <<>>
    THEN [status |-> "ok", value |-> subdomains]
    ELSE LET nameArray == Reverse(Head(domains))
         IN IF Len(nameArray) <= Len(role)
            THEN [status |-> "undefined", value |-> <<>>]
            ELSE LET key == nameArray[Len(nameArray)]
                 IN ScanSubdomains_Leftmost(Tail(domains), role,
                        IF key \in Range(subdomains)
                        THEN subdomains
                        ELSE Append(subdomains, key))

\* the loop of getSubdomains: `subdomains` holds the keys in insertion order
RECURSIVE ScanSubdomains(_, _, _)
ScanSubdomains(domains, role, subdomains) ==
    IF domains = <<>>
    THEN [status |-> "ok", value |-> subdomains]
    ELSE LET nameArray == Reverse(Head(domains))
         IN IF Len(nameArray) <= Len(role)
            THEN [status |-> "undefined", value |-> <<>>]
            ELSE LET key == nameArray[Len(role) + 1]
                 IN ScanSubdomains(Tail(domains), role,
                        IF key \in Range(subdomains)
                        THEN subdomains
                        ELSE Append(subdomains, key))

\* IAM.getSubdomains: status "ok" with the list, "undefined" for the bare
\* return, "throw" for ENSRegistryNotInitializedError
getSubdomains(domain) ==
    IF ensRegistry
    THEN ScanSubdomains(getFilteredDomainsFromEvent(domain), domain, <<>>)
    ELSE [status |-> "throw", value |-> <<>>]

\* CacheServerClient.getApplicationsByOrganization
getApplicationsByOrganization(namespace) ==
    IF namespace \in DOMAIN cacheApps THEN cacheApps[namespace] ELSE <<>>

\* IAM.getAppsByOrgNamespace
getAppsByOrgNamespace(namespace) ==
    IF ~cacheClient
    THEN [status |-> "throw", value |-> <<>>]
    ELSE [status |-> "ok", value |-> getApplicationsByOrganization(namespace)]

----------------------------------------------------------------------------
(* validateOwnership *)

\* variant: the role branch also looks up the role node itself
OwnershipNamespaces_RoleSelf(namespace, type) ==
    CASE type = Roles -> <<namespace, Tail(namespace)>>
      [] type = Application ->
            <<namespace, Tail(namespace), <<Roles>> \o namespace>>
      [] type = Organization ->
            <<Tail(namespace), <<Roles>> \o namespace,
              <<Application>> \o namespace, namespace>>
      [] OTHER -> <<>>

\* the `namespaces` whose owner validateOwnership looks up, in code order
OwnershipNamespaces(namespace, type) ==
    CASE type = Roles -> <<Tail(namespace)>>
      [] type = Application ->
            <<namespace, Tail(namespace), <<Roles>> \o namespace>>
      [] type = Organization ->
            <<Tail(namespace), <<Roles>> \o namespace,
              <<Application>> \o namespace, namespace>>
      [] OTHER -> <<>>

\* the null a lookup callback returns for an owned namespace
NullNamespace == <<>>
\* the lengths the `namespaces` list of a call can have
ListLengths ==
    {Len(OwnershipNamespaces(<<"o", "iam">>, type)) :
        type \in ENSNamespaceTypes \cup {"did"}}
\* the orders in which n concurrent lookups can complete
AllOrders ==
    [n \in ListLengths |->
        {o \in [1..n -> 1..n] : \A i, j \in 1..n : i # j => o[i] # o[j]}]
Orders(n) == AllOrders[n]
InOrder(n) == [i \in 1..n |-> i]
Pending(n) == [i \in 1..n |-> NullNamespace]

\* the callback of namespaces.map: the namespace when its owner is not the
\* connected address, null otherwise
NotOwnedOrNull(ns) == IF getOwner(ns) # address THEN ns ELSE NullNamespace

\* variant: the results are collected in the order the lookups complete
PromiseAll_CompletionOrder(namespaces, order, results) ==
    [k \in 1..Len(order) |-> NotOwnedOrNull(namespaces[order[k]])]

\* Promise.all(namespaces.map(callback)): every lookup is started, each
\* settles its own position of the result array, in the order `order`
RECURSIVE PromiseAll(_, _, _)
PromiseAll(namespaces, order, results) ==
    IF order = <<>>
    THEN results
    ELSE LET i == Head(order)
         IN PromiseAll(namespaces, Tail(order),
                       [results EXCEPT ![i] = NotOwnedOrNull(namespaces[i])])

\* variant: the last entry of the result array is never kept
NotOwnedNamespaces_SkipLast(notOwnedNamespaces) ==
    SelectSeq(SubSeq(notOwnedNamespaces, 1, Len(notOwnedNamespaces) - 1),
              LAMBDA ns : ns # NullNamespace)

\* notOwnedNamespaces.filter(Boolean)
NotOwnedNamespaces(notOwnedNamespaces) ==
    SelectSeq(notOwnedNamespaces, LAMBDA ns : ns # NullNamespace)

\* IAM.validateOwnership when the lookups complete in the order `order`
\* (the single lookup of a role is the one-element case)
\* variant: the owners are looked up whether or not an address is connected
validateOwnershipIn_NoLoginCheck(namespace, type, order) ==
    IF type \notin ENSNamespaceTypes
    THEN [error |-> "ENS type not supported", list |-> <<>>, lookups |-> {}]
    ELSE LET namespaces == OwnershipNamespaces(namespace, type)
         IN [error |-> "none",
             list |-> NotOwnedNamespaces(
                          PromiseAll(namespaces, order,
                                     Pending(Len(namespaces)))),
             lookups |-> {namespaces[order[k]] : k \in 1..Len(order)}]

validateOwnershipIn(namespace, type, order) ==
    IF address = Undefined
    THEN [error |-> "User not logged in", list |-> <<>>, lookups |-> {}]
    ELSE IF type \notin ENSNamespaceTypes
    THEN [error |-> "ENS type not supported", list |-> <<>>, lookups |-> {}]
    ELSE LET namespaces == OwnershipNamespaces(namespace, type)
         IN [error |-> "none",
             list |-> NotOwnedNamespaces(
                          PromiseAll(namespaces, order,
                                     Pending(Len(namespaces)))),
             lookups |-> {namespaces[order[k]] : k \in 1..Len(order)}]

\* IAM.validateOwnership as the guarded operations await it
validateOwnership(namespace, type) ==
    validateOwnershipIn(namespace, type,
                        InOrder(Len(OwnershipNamespaces(namespace, type))))

----------------------------------------------------------------------------
(* Steps: { next, info }.  `fn` and `path` give the primitive that next()  *)
(* calls and the namespace it acts on; info is the description, a sequence *)
(* of its text followed by the labels of the namespace it interpolates.    *)

Step(fn, path, newOwner, info) ==
    [fn |-> fn, path |-> path, newOwner |-> newOwner, info |-> info]

\* () => this.createSubdomain({ subdomain, domain })
createSubdomain(subdomain, domain, info) ==
    Step("createSubdomain", <<subdomain>> \o domain, Undefined, <<info>>)

\* () => this.setDomainName({ domain })
setDomainName(domain, info) ==
    Step("setDomainName", domain, Undefined, <<info>>)

\* () => this.setRoleDefinition({ data, domain })
setRoleDefinition(domain, info) ==
    Step("setRoleDefinition", domain, Undefined, <<info>>)

\* () => this.changeSubdomainOwner({ newOwner, namespace, label })
changeSubdomainOwner(newOwner, namespace, label) ==
    Step("changeSubdomainOwner", <<label>> \o namespace, newOwner,
         <<"Changing ownership of">> \o <<label>> \o namespace)

\* () => this.deleteSubdomain({ namespace })
deleteSubdomain(namespace) ==
    Step("deleteSubdomain", namespace, Undefined, <<"Deleting">> \o namespace)

\* variant: the apps anchor is created before the roles anchor
createOrganizationSteps_AppsFirst(orgName, namespace) ==
    LET newDomain == <<orgName>> \o namespace
        rolesDomain == <<Roles>> \o newDomain
        appsDomain == <<Application>> \o newDomain
    IN << createSubdomain(orgName, namespace, "Create organization subdomain"),
          setDomainName(newDomain,
                        "Register reverse name for organization subdomain"),
          setRoleDefinition(newDomain, "Set definition for organization"),
          createSubdomain(Application, newDomain,
                          "Create app subdomain for organization"),
          setDomainName(appsDomain, "Register reverse name for app subdomain"),
          createSubdomain(Roles, newDomain,
                          "Create roles subdomain for organization"),
          setDomainName(rolesDomain,
                        "Register reverse name for roles subdomain") >>

\* the `steps` of createOrganization
createOrganizationSteps(orgName, namespace) ==
    LET newDomain == <<orgName>> \o namespace
        rolesDomain == <<Roles>> \o newDomain
        appsDomain == <<Application>> \o newDomain
    IN << createSubdomain(orgName, namespace, "Create organization subdomain"),
          setDomainName(newDomain,
                        "Register reverse name for organization subdomain"),
          setRoleDefinition(newDomain, "Set definition for organization"),
          createSubdomain(Roles, newDomain,
                          "Create roles subdomain for organization"),
          setDomainName(rolesDomain,
                        "Register reverse name for roles subdomain"),
          createSubdomain(Application, newDomain,
                          "Create app subdomain for organization"),
          setDomainName(appsDomain, "Register reverse name for app subdomain") >>

\* the `steps` of createApplication
createApplicationSteps(appName, namespace) ==
    LET newDomain == <<appName>> \o namespace
        rolesNamespace == <<Roles>> \o newDomain
    IN << createSubdomain(appName, namespace, "Set subdomain for application"),
          setDomainName(newDomain, "Set name for application"),
          setRoleDefinition(newDomain, "Set definition for application"),
          createSubdomain(Roles, newDomain,
                          "Create roles subdomain for application"),
          setDomainName(rolesNamespace,
                        "Set name for roles subdomain for application") >>

\* variant: the definition is set before the name is registered
createRoleSteps_DefinitionFirst(roleName, namespace) ==
    LET newDomain == <<roleName>> \o namespace
    IN << createSubdomain(roleName, namespace, "Create subdomain for role"),
          setRoleDefinition(newDomain, "Set role definition for role"),
          setDomainName(newDomain, "Set name for role") >>

\* the `steps` of createRole
createRoleSteps(roleName, namespace) ==
    LET newDomain == <<roleName>> \o namespace
    IN << createSubdomain(roleName, namespace, "Create subdomain for role"),
          setDomainName(newDomain, "Set name for role"),
          setRoleDefinition(newDomain, "Set role definition for role") >>

\* steps.push(...) for every role of `roles`, in order
RoleOwnerSteps(roles, namespace, newOwner) ==
    [i \in 1..Len(roles) |->
        changeSubdomainOwner(newOwner, <<Roles>> \o namespace, roles[i])]

RoleDeleteSteps(roles, namespace) ==
    [i \in 1..Len(roles) |->
        deleteSubdomain(<<roles[i]>> \o <<Roles>> \o namespace)]

\* variant: the list is executed in the order it was built
changeOrgOwnershipSteps_NotReversed(namespace, newOwner, roles) ==
    << changeSubdomainOwner(newOwner, Tail(namespace), Head(namespace)),
       changeSubdomainOwner(newOwner, namespace, Application),
       changeSubdomainOwner(newOwner, namespace, Roles) >>
    \o RoleOwnerSteps(roles, namespace, newOwner)

\* the `reversedSteps` of changeOrgOwnership
changeOrgOwnershipSteps(namespace, newOwner, roles) ==
    Reverse(<< changeSubdomainOwner(newOwner, Tail(namespace), Head(namespace)),
               changeSubdomainOwner(newOwner, namespace, Application),
               changeSubdomainOwner(newOwner, namespace, Roles) >>
            \o RoleOwnerSteps(roles, namespace, newOwner))

\* variant: the application's list is executed in the order it was built
changeAppOwnershipSteps_NotReversed(namespace, newOwner, roles) ==
    << changeSubdomainOwner(newOwner, Tail(namespace), Head(namespace)),
       changeSubdomainOwner(newOwner, namespace, Roles) >>
    \o RoleOwnerSteps(roles, namespace, newOwner)

\* the `reversedSteps` of changeAppOwnership
changeAppOwnershipSteps(namespace, newOwner, roles) ==
    Reverse(<< changeSubdomainOwner(newOwner, Tail(namespace), Head(namespace)),
               changeSubdomainOwner(newOwner, namespace, Roles) >>
            \o RoleOwnerSteps(roles, namespace, newOwner))

\* variant: the plan has no step for the apps anchor
deleteOrganizationSteps_NoApps(namespace, roles) ==
    Reverse(<< deleteSubdomain(namespace),
               deleteSubdomain(<<Roles>> \o namespace) >>
            \o RoleDeleteSteps(roles, namespace))

\* variant: only the three fixed steps are reversed, the role steps follow
deleteOrganizationSteps_RolesLast(namespace, roles) ==
    Reverse(<< deleteSubdomain(namespace),
               deleteSubdomain(<<Application>> \o namespace),
               deleteSubdomain(<<Roles>> \o namespace) >>)
    \o RoleDeleteSteps(roles, namespace)

\* variant: the role steps are put in front in discovery order
deleteOrganizationSteps_RolesInOrder(namespace, roles) ==
    RoleDeleteSteps(roles, namespace)
    \o Reverse(<< deleteSubdomain(namespace),
                  deleteSubdomain(<<Application>> \o namespace),
                  deleteSubdomain(<<Roles>> \o namespace) >>)

\* the `reversedSteps` of deleteOrganization
deleteOrganizationSteps(namespace, roles) ==
    Reverse(<< deleteSubdomain(namespace),
               deleteSubdomain(<<Application>> \o namespace),
               deleteSubdomain(<<Roles>> \o namespace) >>
            \o RoleDeleteSteps(roles, namespace))

\* variant: the application's list is executed in the order it was built
deleteApplicationSteps_NotReversed(namespace, roles) ==
    << deleteSubdomain(namespace),
       deleteSubdomain(<<Roles>> \o namespace) >>
    \o RoleDeleteSteps(roles, namespace)

\* the `reversedSteps` of deleteApplication
deleteApplicationSteps(namespace, roles) ==
    Reverse(<< deleteSubdomain(namespace),
               deleteSubdomain(<<Roles>> \o namespace) >>
            \o RoleDeleteSteps(roles, namespace))

----------------------------------------------------------------------------
(* Preconditions: the error an operation throws before its step list is    *)
(* complete, NoError when it throws none.                                   *)

\* variant: a single not-owned namespace is tolerated
OwnershipError_TolerateOne(namespace, type, errorName) ==
    LET v == validateOwnership(namespace, type)
    IN IF v.error # "none" THEN Err(v.error)
       ELSE IF Len(v.list) > 1
       THEN [name |-> errorName, namespace |-> namespace,
             notOwnedNamespaces |-> v.list, step |-> 0, info |-> <<>>]
       ELSE NoError

\* validateOwnership and the throw on a non-empty notOwnedNamespaces
OwnershipError(namespace, type, errorName) ==
    LET v == validateOwnership(namespace, type)
    IN IF v.error # "none" THEN Err(v.error)
       ELSE IF Len(v.list) > 0
       THEN [name |-> errorName, namespace |-> namespace,
             notOwnedNamespaces |-> v.list, step |-> 0, info |-> <<>>]
       ELSE NoError

\* const apps = this._cacheClient ? getAppsByOrgNamespace : getSubdomains
AppsOf(namespace) ==
    IF cacheClient
    THEN getAppsByOrgNamespace(namespace)
    ELSE getSubdomains(<<Application>> \o namespace)

\* apps && apps.length > 0
HasRegisteredApps(apps) == apps.status = "ok" /\ Len(apps.value) > 0

\* (await this.getSubdomains({ domain: roles.namespace })) || []
RolesOf(namespace) == getSubdomains(<<Roles>> \o namespace).value

RolesError(namespace) ==
    IF getSubdomains(<<Roles>> \o namespace).status = "throw"
    THEN Err("ENSRegistryNotInitializedError")
    ELSE NoError

OrgPre(namespace, errorName, appsMessage) ==
    LET o == OwnershipError(namespace, Organization, errorName)
        apps == AppsOf(namespace)
    IN IF o # NoError THEN o
       ELSE IF apps.status = "throw" THEN Err("ENSRegistryNotInitializedError")
       ELSE IF HasRegisteredApps(apps) THEN Err(appsMessage)
       ELSE RolesError(namespace)

changeOrgOwnershipPre(namespace) ==
    OrgPre(namespace, "ChangeOwnershipNotPossibleError",
      "You are not able to change ownership of organization with registered apps")

deleteOrganizationPre(namespace) ==
    OrgPre(namespace, "DeletingNamespaceNotPossibleError",
      "You are not able to remove organization with registered apps")

changeAppOwnershipPre(namespace) ==
    LET o == OwnershipError(namespace, Application,
                            "ChangeOwnershipNotPossibleError")
    IN IF o # NoError THEN o ELSE RolesError(namespace)

\* variant: the child-application check of the organization operations
deleteApplicationPre_ChecksApps(namespace) ==
    LET o == OwnershipError(namespace, Application,
                            "DeletingNamespaceNotPossibleError")
        apps == AppsOf(namespace)
    IN IF o # NoError THEN o
       ELSE IF HasRegisteredApps(apps)
       THEN Err("You are not able to remove application with registered apps")
       ELSE RolesError(namespace)

deleteApplicationPre(namespace) ==
    LET o == OwnershipError(namespace, Application,
                            "DeletingNamespaceNotPossibleError")
    IN IF o # NoError THEN o ELSE RolesError(namespace)

changeRoleOwnershipPre(namespace) ==
    OwnershipError(namespace, Roles, "ChangeOwnershipNotPossibleError")

deleteRolePre(namespace) ==
    OwnershipError(namespace, Roles, "DeletingNamespaceNotPossibleError")

\* if (!this._runningInBrowser) throw new MethodNotAvailableInNodeEnvError
createPre ==
    IF ~runningInBrowser THEN Err("MethodNotAvailableInNodeEnvError")
    ELSE NoError

----------------------------------------------------------------------------
(* The state machine: one call per behaviour, over every registry state,   *)
(* event log and configuration that Init enumerates.                       *)

\* the signer service as the namespace operations see it: constructed,
\* initialised for the caller's wallet and not called
NullKey == [pub |-> "null"]
NullSig == [by |-> "null", chain |-> "null", iss |-> "null", block |-> 0,
            prefix |-> 0]
NullToken == [chain |-> "null", iss |-> "null", block |-> 0, sig |-> NullSig]
NoSignerCall == [op |-> "none", status |-> "none", publicKey |-> NullKey,
                 identityToken |-> NullToken, sig |-> NullSig, requests |-> 0]
SignerAtRest ==
    /\ _signer = [address |-> Me, chain |-> "volta", kind |-> "eip191",
                  wallet |-> TRUE]
    /\ _providerType = "PrivateKey"
    /\ _address = Me
    /\ _chainName = "volta"
    /\ _publicKey = NullKey
    /\ _identityToken = NullToken
    /\ executionEnv = "NODE"
    /\ localStorage = NullKey
    /\ blockNumber = 1
    /\ signRequests = 0
    /\ session = 0
    /\ sessionCalls = 0
    /\ last = NoSignerCall

\* the claims exchange as the other parts see it: logged in, no transport
\* used, not called
MyDID == "did:ethr:0xMe"
NoClaimCall == [op |-> "none", error |-> "none", id |-> 0, issuer |-> <<>>,
                requester |-> Undefined, token |-> <<>>]
NoScan == [domain |-> <<>>, status |-> "none", value |-> <<>>]
NoRead == [op |-> "none", type |-> "none", did |-> Undefined, error |-> "none",
           value |-> "none", reads |-> <<>>]
ReadsAtRest ==
    /\ scan = NoScan
    /\ _resolver = TRUE
    /\ _ensResolver = TRUE
    /\ cacheReply = "ok"
    /\ readCall = NoRead
\* the calls of publicKeyAndIdentityToken that may overlap
Tasks == 1 .. MaxTasks
NoTask == [pc |-> "idle", overlapped |-> FALSE, requests |-> 0,
           status |-> "none", publicKey |-> NullKey,
           identityToken |-> NullToken]

NoRegistration ==
    [pc |-> "idle", identity |-> Undefined, asset |-> FALSE, loops |-> 0,
     reads |-> 0, foundAt |-> 0, returned |-> Undefined, error |-> "none"]

NoPublication ==
    [op |-> "none", token |-> <<>>, effects |-> <<>>, returned |-> <<>>,
     error |-> "none"]

NoUpdate ==
    [op |-> "none", did |-> Undefined, signer |-> Undefined,
     submitted |-> FALSE, error |-> "none"]

\* initEventHandlers(): the listeners one call registers, in order
initEventHandlers(providerType) ==
    CASE providerType = "MetaMask" ->
           <<[event |-> "AccountChanged", cb |-> "accChangedHandler"],
             [event |-> "NetworkChanged", cb |-> "accChangedHandler"]>>
      [] providerType = "WalletConnect" ->
           <<[event |-> "SessionUpdate", cb |-> "accChangedHandler"],
             [event |-> "Disconnected", cb |-> "closeConnection"]>>
      [] OTHER -> <<>>

\* the dependent services as the other parts see them: the signer service
\* has run its first init(), no service is created, nothing is called
ServicesAtRest ==
    /\ tasks = [t \in Tasks |-> NoTask]
    /\ _walletEventListeners = initEventHandlers(_providerType)
    /\ _servicesInitializers = <<>>
    /\ cycles = <<>>
    /\ _owner = Undefined
    /\ _registryDid = Undefined
    /\ registration = NoRegistration
    /\ _jwt = TRUE
    /\ _document = TRUE
    /\ ipfsStore = <<>>
    /\ service = <<>>
    /\ publication = NoPublication
    /\ documentUpdate = NoUpdate

NoSubscription == [state |-> "none", topic |-> <<>>]
NotSubscribed ==
    /\ subscription = NoSubscription
    /\ inbound = <<>>
    /\ arrived = <<>>
    /\ handled = <<>>
ExchangeAtRest ==
    /\ _did = MyDID
    /\ _natsConnection = FALSE
    /\ _jsonCodec = FALSE
    /\ _userClaims = TRUE
    /\ _issuerClaims = TRUE
    /\ published = <<>>
    /\ mailbox = <<>>
    /\ uuids = 0
    /\ claimCall = NoClaimCall
    /\ NotSubscribed

Existing == VPaths \cup MinePaths
CacheAppLists == {<<>>, <<"a">>}
NewOwners == {NewOwner}
RoleNamespaces == {OrgRole1, AppRole1}
\* the node type a caller passes for a namespace of the universe
TypeOf(n) ==
    IF n = Org THEN Organization ELSE IF n = App THEN Application ELSE Roles

Init ==
    /\ address \in {Me, Undefined}
    /\ runningInBrowser \in BOOLEAN
    /\ ensRegistry \in BOOLEAN
    /\ cacheClient \in BOOLEAN
    /\ cacheApps \in [{Org} -> CacheAppLists]
    /\ (~cacheClient => cacheApps[Org] = <<>>)
    /\ \E F \in SUBSET VPaths :
         /\ Cardinality(F) <= MaxForeign
         /\ owner = [p \in AllPaths |->
                       IF p \in F THEN Other
                       ELSE IF p \in Existing THEN Me ELSE emptyAddress]
    /\ names = Existing
    /\ defs = {Org, App, OrgRole1, OrgRole2, AppRole1}
    /\ eventLog \in {l \in SeqsUpTo(EventNames, MaxLog) : NoDup(l)}
    /\ pc = "idle"
    /\ call = NoCall
    /\ steps = <<>>
    /\ next = 1
    /\ inFlight = {}
    /\ applied = <<>>
    /\ returned = <<>>
    /\ error = NoError
    /\ lookups = {}
    /\ ReadsAtRest
    /\ SignerAtRest
    /\ ServicesAtRest
    /\ ExchangeAtRest

\* what no namespace operation changes
config == <<address, runningInBrowser, ensRegistry, cacheClient, cacheApps,
            eventLog, readVars, serviceVars, signerVars, exchangeVars>>
ledger == <<owner, names, defs>>

Call(op, namespace, type, newOwner, returnSteps) ==
    [op |-> op, namespace |-> namespace, type |-> type,
     newOwner |-> newOwner, returnSteps |-> returnSteps]

\* variant: the step list is returned and executed as well
Start_AlwaysExec(c, e, lk, s) ==
    /\ pc = "idle"
    /\ call' = c
    /\ lookups' = lk
    /\ error' = e
    /\ next' = 1
    /\ inFlight' = {}
    /\ applied' = <<>>
    /\ IF e # NoError
       THEN pc' = "error" /\ steps' = <<>> /\ returned' = <<>>
       ELSE /\ steps' = s
            /\ pc' = "exec"
            /\ returned' = IF c.returnSteps THEN s ELSE <<>>
    /\ UNCHANGED <<config, ledger>>

\* the part of an operation up to its return, its throw or the start of its
\* executing loop: e is its precondition error, s its step list
Start(c, e, lk, s) ==
    /\ pc = "idle"
    /\ call' = c
    /\ lookups' = lk
    /\ error' = e
    /\ next' = 1
    /\ inFlight' = {}
    /\ applied' = <<>>
    /\ IF e # NoError
       THEN pc' = "error" /\ steps' = <<>> /\ returned' = <<>>
       ELSE /\ steps' = s
            /\ IF c.returnSteps
               THEN pc' = "done" /\ returned' = s
               ELSE pc' = "exec" /\ returned' = <<>>
    /\ UNCHANGED <<config, ledger>>

\* the outcomes of IAM.validateOwnership over every order in which its
\* lookups can complete
validateOwnershipOutcomes(namespace, type) ==
    {validateOwnershipIn(namespace, type, order) :
        order \in Orders(Len(OwnershipNamespaces(namespace, type)))}

validateOwnershipCall(namespace, type) ==
    /\ pc = "idle"
    /\ \E v \in validateOwnershipOutcomes(namespace, type) :
         /\ call' = Call("validateOwnership", namespace, type, Undefined,
                         FALSE)
         /\ lookups' = v.lookups
         /\ IF v.error # "none"
            THEN pc' = "error" /\ error' = Err(v.error) /\ returned' = <<>>
            ELSE pc' = "done" /\ error' = NoError /\ returned' = v.list
    /\ UNCHANGED <<config, ledger, steps, next, inFlight, applied>>

createOrganization(orgName, namespace, returnSteps) ==
    Start(Call("createOrganization", <<orgName>> \o namespace, Organization,
               Undefined, returnSteps),
          createPre, {}, createOrganizationSteps(orgName, namespace))

createApplication(appName, namespace, returnSteps) ==
    Start(Call("createApplication", <<appName>> \o namespace, Application,
               Undefined, returnSteps),
          createPre, {}, createApplicationSteps(appName, namespace))

createRole(roleName, namespace, returnSteps) ==
    Start(Call("createRole", <<roleName>> \o namespace, Roles,
               Undefined, returnSteps),
          createPre, {}, createRoleSteps(roleName, namespace))

changeOrgOwnership(namespace, newOwner, returnSteps) ==
    Start(Call("changeOrgOwnership", namespace, Organization, newOwner,
               returnSteps),
          changeOrgOwnershipPre(namespace),
          validateOwnership(namespace, Organization).lookups,
          changeOrgOwnershipSteps(namespace, newOwner, RolesOf(namespace)))

changeAppOwnership(namespace, newOwner, returnSteps) ==
    Start(Call("changeAppOwnership", namespace, Application, newOwner,
               returnSteps),
          changeAppOwnershipPre(namespace),
          validateOwnership(namespace, Application).lookups,
          changeAppOwnershipSteps(namespace, newOwner, RolesOf(namespace)))

\* no step list: the one changeSubdomainOwner call is awaited directly
changeRoleOwnership(namespace, newOwner) ==
    Start(Call("changeRoleOwnership", namespace, Roles, newOwner, FALSE),
          changeRoleOwnershipPre(namespace),
          validateOwnership(namespace, Roles).lookups,
          <<changeSubdomainOwner(newOwner, Tail(namespace), Head(namespace))>>)

deleteOrganization(namespace, returnSteps) ==
    Start(Call("deleteOrganization", namespace, Organization, Undefined,
               returnSteps),
          deleteOrganizationPre(namespace),
          validateOwnership(namespace, Organization).lookups,
          deleteOrganizationSteps(namespace, RolesOf(namespace)))

deleteApplication(namespace, returnSteps) ==
    Start(Call("deleteApplication", namespace, Application, Undefined,
               returnSteps),
          deleteApplicationPre(namespace),
          validateOwnership(namespace, Application).lookups,
          deleteApplicationSteps(namespace, RolesOf(namespace)))

\* no step list: the one deleteSubdomain call is awaited directly
deleteRole(namespace) ==
    Start(Call("deleteRole", namespace, Roles, Undefined, FALSE),
          deleteRolePre(namespace),
          validateOwnership(namespace, Roles).lookups,
          <<deleteSubdomain(namespace)>>)

\* the effect of one primitive on the ledger
Apply(step) ==
    CASE step.fn = "createSubdomain" ->
            /\ owner' = [owner EXCEPT ![step.path] = address]
            /\ UNCHANGED <<names, defs>>
      [] step.fn = "setDomainName" ->
            /\ names' = names \cup {step.path}
            /\ UNCHANGED <<owner, defs>>
      [] step.fn = "setRoleDefinition" ->
            /\ defs' = defs \cup {step.path}
            /\ UNCHANGED <<owner, names>>
      [] step.fn = "changeSubdomainOwner" ->
            /\ owner' = [owner EXCEPT ![step.path] = step.newOwner]
            /\ UNCHANGED <<names, defs>>
      [] step.fn = "deleteSubdomain" ->
            /\ owner' = [owner EXCEPT ![step.path] = emptyAddress]
            /\ UNCHANGED <<names, defs>>

\* variant: every remaining step is started without awaiting the previous
NextToBegin_All == {i \in next..Len(steps) : i \notin inFlight}

\* the steps the executing loop may start now: the loop calls next() of step
\* `next` once the await of the step before it has returned
NextToBegin ==
    IF inFlight = {} /\ next <= Len(steps) THEN {next} ELSE {}

\* for (const { next } of steps) { await next(); }: next() is called
BeginStep ==
    /\ pc = "exec"
    /\ \E i \in NextToBegin : inFlight' = inFlight \cup {i}
    /\ UNCHANGED <<config, ledger, pc, call, steps, next, applied, returned,
                   error, lookups>>

\* await next() returns: the primitive has been applied;  return [];
ExecStep ==
    /\ pc = "exec"
    /\ \E i \in inFlight :
         /\ Apply(steps[i])
         /\ applied' = Append(applied, steps[i])
         /\ inFlight' = inFlight \ {i}
         /\ next' = i + 1
         /\ pc' = IF Len(applied) + 1 = Len(steps) THEN "done" ELSE "exec"
    /\ UNCHANGED <<config, call, steps, returned, error, lookups>>

\* variant: a rejected step is started again
FailStep_Retry ==
    /\ pc = "exec"
    /\ \E i \in inFlight :
         /\ inFlight' = inFlight \ {i}
         /\ pc' = "exec"
         /\ error' = Err("TransactionRejected")
    /\ UNCHANGED <<config, ledger, call, steps, next, applied, returned,
                   lookups>>

\* await next() rejects: the loop has no catch, the rejection of the
\* primitive leaves the operation as it is
FailStep ==
    /\ pc = "exec"
    /\ \E i \in inFlight :
         /\ inFlight' = inFlight \ {i}
         /\ pc' = "failed"
         /\ error' = Err("TransactionRejected")
    /\ UNCHANGED <<config, ledger, call, steps, next, applied, returned,
                   lookups>>

Next ==
    \/ \E n \in {Org, App} \cup RoleNamespaces :
         \E t \in {TypeOf(n), "did"} : validateOwnershipCall(n, t)
    \/ \E rs \in BOOLEAN : createOrganization("n", Iam, rs)
    \/ \E rs \in BOOLEAN : createApplication("b", OrgApps, rs)
    \/ \E rs \in BOOLEAN : createRole("r3", OrgRoles, rs)
    \/ \E o \in NewOwners, rs \in BOOLEAN : changeOrgOwnership(Org, o, rs)
    \/ \E o \in NewOwners, rs \in BOOLEAN : changeAppOwnership(App, o, rs)
    \/ \E o \in NewOwners, n \in RoleNamespaces : changeRoleOwnership(n, o)
    \/ \E rs \in BOOLEAN : deleteOrganization(Org, rs)
    \/ \E rs \in BOOLEAN : deleteApplication(App, rs)
    \/ \E n \in RoleNamespaces : deleteRole(n)
    \/ BeginStep
    \/ ExecStep
    \/ FailStep

Spec == Init /\ [][Next]_vars

----------------------------------------------------------------------------
(* The signer service (src/src/modules/signer/signer.service.ts).  A       *)
(* digest is the token payload it was computed from together with the      *)
(* number of times the personal-message prefix and hash were applied to    *)
(* it; a signature is a digest together with the address of the key that   *)
(* signed it.                                                               *)

Addresses == {Me, Other}
Chains == {"volta", "ewc"}
SignerKinds == {"eip191", "raw", "foreign"}
ProviderTypes == {"MetaMask", "WalletConnect", "PrivateKey"}
ProviderEvents ==
    {"AccountChanged", "NetworkChanged", "SessionUpdate", "Disconnected"}
NON_EIP191_SIGNER == "NON_EIP191_SIGNER"
\* what recovery yields for a signature made over another digest
Garbage == "0xGarbage"
\* the key a wallet of kind "foreign" signs with
ForeignKey == "0xForeignKey"

PubKeyOf(a) == [pub |-> a]
Digest(chain, iss, block, prefix) ==
    [chain |-> chain, iss |-> iss, block |-> block, prefix |-> prefix]
Sig(by, d) ==
    [by |-> by, chain |-> d.chain, iss |-> d.iss, block |-> d.block,
     prefix |-> d.prefix]

\* ethers hashMessage: keccak256 of the personal-message prefix and the bytes
hashMessage(m) == [m EXCEPT !.prefix = @ + 1]

\* ethers getAddress: the checksum form of an address
getAddress(a) ==
    IF a = "0xme" THEN Me ELSE IF a = "0xother" THEN Other ELSE a

\* ethers recoverAddress: the signing key when the signature was made over
\* this digest, an unrelated address otherwise
recoverAddress(d, sig) == IF sig = Sig(sig.by, d) THEN sig.by ELSE Garbage

\* ethers verifyMessage(message, sig) = recoverAddress(hashMessage(message))
verifyMessage(m, sig) == recoverAddress(hashMessage(m), sig)

recoverPublicKey(d, sig) == PubKeyOf(recoverAddress(d, sig))

\* this.signer.signMessage(bytes) of the connected wallet: an EIP-191 wallet
\* prefixes and hashes the bytes before signing, a raw wallet signs the
\* bytes as they are, a foreign wallet signs with a key that is not the
\* key of the address it reports
WalletSign(w, m) ==
    CASE w.kind = "eip191" -> Sig(w.address, hashMessage(m))
      [] w.kind = "raw" -> Sig(w.address, m)
      [] w.kind = "foreign" -> Sig(ForeignKey, hashMessage(m))

\* variant: the first candidate is returned without being verified
signMessage_Unverified(message) ==
    [status |-> "ok", sig |-> WalletSign(_signer, message), requests |-> 2]

\* signMessage: the outcome and the number of signature requests
signMessage(message) ==
    LET unPrefixedMsgSig == WalletSign(_signer, message)
        prefixedMsgSig == WalletSign(_signer, hashMessage(message))
    IN IF _address = verifyMessage(message, unPrefixedMsgSig)
       THEN [status |-> "ok", sig |-> unPrefixedMsgSig, requests |-> 2]
       ELSE IF _address = verifyMessage(message, prefixedMsgSig)
       THEN [status |-> "ok", sig |-> prefixedMsgSig, requests |-> 2]
       ELSE [status |-> NON_EIP191_SIGNER, sig |-> NullSig, requests |-> 2]

\* variant: the recovered key is stored before the signature is checked
calculatePubKeyAndIdentityToken_EagerCache ==
    LET message == Digest(_chainName, _address, blockNumber, 0)
        digest == hashMessage(message)
        r == signMessage(message)
    IN IF r.status # "ok"
       THEN [status |-> r.status, publicKey |-> _publicKey,
             identityToken |-> _identityToken, requests |-> r.requests]
       ELSE [status |-> IF getAddress(_address) # verifyMessage(digest, r.sig)
                        THEN NON_EIP191_SIGNER ELSE "ok",
             publicKey |-> recoverPublicKey(digest, r.sig),
             identityToken |-> _identityToken, requests |-> r.requests]

\* _calculatePubKeyAndIdentityToken: the outcome, the cache it leaves and
\* the number of signature requests
calculatePubKeyAndIdentityToken ==
    LET message == Digest(_chainName, _address, blockNumber, 0)
        digest == hashMessage(message)
        r == signMessage(message)
    IN IF r.status # "ok"
       THEN [status |-> r.status, publicKey |-> _publicKey,
             identityToken |-> _identityToken, requests |-> r.requests]
       ELSE IF getAddress(_address) # verifyMessage(digest, r.sig)
       THEN [status |-> NON_EIP191_SIGNER, publicKey |-> _publicKey,
             identityToken |-> _identityToken, requests |-> r.requests]
       ELSE [status |-> "ok", publicKey |-> recoverPublicKey(digest, r.sig),
             identityToken |->
                 [chain |-> _chainName, iss |-> _address,
                  block |-> blockNumber, sig |-> r.sig],
             requests |-> r.requests]


\* the namespace part as the signer service sees it: not called
IamAtRest ==
    /\ address = Me
    /\ runningInBrowser = FALSE
    /\ ensRegistry = TRUE
    /\ cacheClient = FALSE
    /\ cacheApps = [p \in {Org} |-> <<>>]
    /\ owner = [p \in AllPaths |-> IF p \in Existing THEN Me ELSE emptyAddress]
    /\ names = Existing
    /\ defs = {Org, App, OrgRole1, OrgRole2, AppRole1}
    /\ eventLog = <<>>
    /\ pc = "idle"
    /\ call = NoCall
    /\ steps = <<>>
    /\ next = 1
    /\ inFlight = {}
    /\ applied = <<>>
    /\ returned = <<>>
    /\ error = NoError
    /\ lookups = {}
    /\ ReadsAtRest
    /\ ExchangeAtRest

\* the wallets a signer service is connected to: an ethers Wallet (private
\* key) signs as EIP-191 prescribes, a browser or relay wallet signs in the
\* way of its backend
Wallets ==
    {w \in [address : Addresses, chain : Chains, kind : SignerKinds,
            wallet : BOOLEAN] : w.wallet => w.kind = "eip191"}
ProviderTypeOf(w) ==
    IF w.wallet THEN {"PrivateKey"} ELSE {"MetaMask", "WalletConnect"}

\* new SignerService(signer, providerType) followed by init()
SignerInit ==
    /\ IamAtRest
    /\ _signer \in Wallets
    /\ _providerType \in ProviderTypeOf(_signer)
    /\ executionEnv \in {"BROWSER", "NODE"}
    /\ localStorage \in
         IF executionEnv = "BROWSER"
         THEN {NullKey} \cup {PubKeyOf(a) : a \in Addresses}
         ELSE {NullKey}
    /\ _address = _signer.address
    /\ _chainName = _signer.chain
    /\ _publicKey = (IF executionEnv = "BROWSER" THEN localStorage ELSE NullKey)
    /\ _identityToken = NullToken
    /\ blockNumber = 1
    /\ signRequests = 0
    /\ session = 0
    /\ sessionCalls = 0
    /\ last = NoSignerCall
    /\ ServicesAtRest

environment == <<executionEnv, localStorage>>

\* init(): the stored key is read in a browser, address and chain are read
\* from the signer w; the identity token is not touched
init(w) ==
    /\ _publicKey' = (IF executionEnv = "BROWSER" THEN localStorage
                                                  ELSE _publicKey)
    /\ _address' = w.address
    /\ _chainName' = w.chain
    /\ UNCHANGED _identityToken

\* connect(signer, providerType)
connect(w, providerType) ==
    /\ session < MaxSessions
    /\ _signer' = w
    /\ _providerType' = providerType
    /\ init(w)
    /\ session' = session + 1
    /\ sessionCalls' = 0
    /\ last' = [NoSignerCall EXCEPT !.op = "connect", !.status = "ok"]
    /\ UNCHANGED <<iamVars, environment, blockNumber, signRequests>>

\* the events for which initEventHandlers registers the reconnect handler
ReconnectEvents(providerType) ==
    CASE providerType = "MetaMask" -> {"AccountChanged", "NetworkChanged"}
      [] providerType = "WalletConnect" -> {"SessionUpdate"}
      [] OTHER -> {}

\* the events a wallet of the provider type raises
EventsOf(providerType) ==
    CASE providerType = "MetaMask" -> {"AccountChanged", "NetworkChanged"}
      [] providerType = "WalletConnect" -> {"SessionUpdate", "Disconnected"}
      [] OTHER -> {}

\* the wallet after it raised event e with account a on chain c
WalletAfter(e, a, c) ==
    CASE e = "AccountChanged" -> [_signer EXCEPT !.address = a]
      [] e = "NetworkChanged" -> [_signer EXCEPT !.chain = c]
      [] e = "SessionUpdate" -> [_signer EXCEPT !.address = a, !.chain = c]
      [] OTHER -> _signer

\* emit(e) after the wallet changed: the reconnect handler runs
\* closeConnection() and init(); the Disconnected handler only closes
emit(e, a, c) ==
    /\ e \in EventsOf(_providerType)
    /\ _signer' = WalletAfter(e, a, c)
    /\ IF e \in ReconnectEvents(_providerType)
       THEN /\ session < MaxSessions
            /\ init(_signer')
            /\ session' = session + 1
            /\ sessionCalls' = 0
       ELSE UNCHANGED <<_publicKey, _address, _chainName, _identityToken,
                        session, sessionCalls>>
    /\ last' = [NoSignerCall EXCEPT !.op = e, !.status = "ok"]
    /\ UNCHANGED <<iamVars, environment, _providerType, blockNumber,
                   signRequests>>

\* the provider reports a new block
NewBlock ==
    /\ blockNumber < MaxBlock
    /\ blockNumber' = blockNumber + 1
    /\ UNCHANGED <<iamVars, environment, _signer, _providerType, _address,
                   _chainName, _publicKey, _identityToken, signRequests,
                   session, sessionCalls, last>>

CanSign == signRequests + 2 <= 2 * MaxCalls

\* a call of signMessage with the message of the current token payload
signMessageCall ==
    LET r == signMessage(Digest(_chainName, _address, blockNumber, 0))
    IN /\ CanSign
       /\ signRequests' = signRequests + r.requests
       /\ last' = [NoSignerCall EXCEPT !.op = "signMessage",
                                       !.status = r.status,
                                       !.sig = r.sig,
                                       !.requests = r.requests]
       /\ UNCHANGED <<iamVars, environment, _signer, _providerType,
                      _address, _chainName, _publicKey, _identityToken,
                      blockNumber, session, sessionCalls>>

\* publicKeyAndIdentityToken(): the cache is used when both parts are set
publicKeyAndIdentityToken ==
    /\ sessionCalls < MaxCalls
    /\ sessionCalls' = sessionCalls + 1
    /\ IF _publicKey = NullKey \/ _identityToken = NullToken
       THEN LET c == calculatePubKeyAndIdentityToken
            IN /\ CanSign
               /\ signRequests' = signRequests + c.requests
               /\ _publicKey' = c.publicKey
               /\ _identityToken' = c.identityToken
               /\ last' = IF c.status = "ok"
                          THEN [NoSignerCall EXCEPT
                                  !.op = "publicKeyAndIdentityToken",
                                  !.status = "ok",
                                  !.publicKey = c.publicKey,
                                  !.identityToken = c.identityToken,
                                  !.requests = c.requests]
                          ELSE [NoSignerCall EXCEPT
                                  !.op = "publicKeyAndIdentityToken",
                                  !.status = c.status,
                                  !.requests = c.requests]
       ELSE /\ last' = [NoSignerCall EXCEPT
                          !.op = "publicKeyAndIdentityToken",
                          !.status = "ok",
                          !.publicKey = _publicKey,
                          !.identityToken = _identityToken]
            /\ UNCHANGED <<_publicKey, _identityToken, signRequests>>
    /\ UNCHANGED <<iamVars, environment, _signer, _providerType, _address,
                   _chainName, blockNumber, session>>

\* publicKey(): the cached key, the key of an ethers Wallet, or the key of
\* publicKeyAndIdentityToken()
publicKey ==
    /\ last.op # "publicKey"
    /\ IF _publicKey # NullKey
       THEN /\ last' = [NoSignerCall EXCEPT !.op = "publicKey",
                                            !.status = "ok",
                                            !.publicKey = _publicKey]
            /\ UNCHANGED <<_publicKey, _identityToken, signRequests>>
       ELSE IF _signer.wallet
       THEN /\ _publicKey' = PubKeyOf(_signer.address)
            /\ last' = [NoSignerCall EXCEPT !.op = "publicKey",
                                            !.status = "ok",
                                            !.publicKey = _publicKey']
            /\ UNCHANGED <<_identityToken, signRequests>>
       ELSE LET c == calculatePubKeyAndIdentityToken
            IN /\ CanSign
               /\ signRequests' = signRequests + c.requests
               /\ _publicKey' = c.publicKey
               /\ _identityToken' = c.identityToken
               /\ last' = [NoSignerCall EXCEPT
                             !.op = "publicKey",
                             !.status = c.status,
                             !.publicKey = IF c.status = "ok"
                                           THEN c.publicKey ELSE NullKey,
                             !.requests = c.requests]
    /\ UNCHANGED <<iamVars, environment, _signer, _providerType, _address,
                   _chainName, blockNumber, session, sessionCalls>>

SignerNext ==
    \/ \E w \in Wallets : \E t \in ProviderTypeOf(w) : connect(w, t)
    \/ \E e \in ProviderEvents, a \in Addresses, c \in Chains : emit(e, a, c)
    \/ NewBlock
    \/ signMessageCall
    \/ publicKeyAndIdentityToken
    \/ publicKey

SignerSpec == SignerInit /\ [][SignerNext]_vars

----------------------------------------------------------------------------
(* publicKeyAndIdentityToken called by several tasks.  A call is suspended
   at each await: at provider.getBlockNumber() and at signMessage(); the
   other tasks run while it is suspended. *)

Suspended(t) == tasks[t].pc \in {"getBlockNumber", "signMessage"}

\* what a step of one task leaves alone
outsideTasks == <<registryVars, exchangeVars, sessionVars, operationVars,
                  environment, _signer,
                  _providerType, _address, _chainName, blockNumber, session,
                  sessionCalls, last>>

\* task t calls publicKeyAndIdentityToken(): the cache test, then either the
\* return of the cached pair or the start of a derivation, which suspends
\* at getBlockNumber()
TaskCall(t) ==
    /\ tasks[t].pc = "idle"
    /\ tasks' = [tasks EXCEPT ![t] =
          IF _publicKey = NullKey \/ _identityToken = NullToken
          THEN [@ EXCEPT !.pc = "getBlockNumber",
                         !.overlapped = \E s \in Tasks \ {t} : Suspended(s)]
          ELSE [@ EXCEPT !.pc = "done", !.status = "ok",
                         !.overlapped = \E s \in Tasks \ {t} : Suspended(s),
                         !.publicKey = _publicKey,
                         !.identityToken = _identityToken]]
    /\ UNCHANGED <<outsideTasks, _publicKey, _identityToken, signRequests>>

\* getBlockNumber() settles for task t, which goes on to signMessage() and
\* is suspended at the wallet's signature requests
BlockNumberRead(t) ==
    /\ tasks[t].pc = "getBlockNumber"
    /\ tasks' = [tasks EXCEPT ![t].pc = "signMessage"]
    /\ UNCHANGED <<outsideTasks, _publicKey, _identityToken, signRequests>>

\* signMessage() settles for task t: the signature is verified, the pair is
\* stored and the call returns the stored pair, or the call throws
Signed(t) ==
    LET c == calculatePubKeyAndIdentityToken
    IN /\ tasks[t].pc = "signMessage"
       /\ signRequests' = signRequests + c.requests
       /\ _publicKey' = c.publicKey
       /\ _identityToken' = c.identityToken
       /\ tasks' = [tasks EXCEPT ![t] =
             IF c.status = "ok"
             THEN [@ EXCEPT !.pc = "done", !.status = "ok",
                            !.requests = c.requests,
                            !.publicKey = c.publicKey,
                            !.identityToken = c.identityToken]
             ELSE [@ EXCEPT !.pc = "failed", !.status = c.status,
                            !.requests = c.requests]]
       /\ UNCHANGED outsideTasks

OverlapNext == \E t \in Tasks : TaskCall(t) \/ BlockNumberRead(t) \/ Signed(t)

OverlapSpec == SignerInit /\ [][OverlapNext]_vars

----------------------------------------------------------------------------
(* SignerService.init with the services that registered through onInit.
   connect and every reconnect handler start one run of init(); a run is
   suspended at its awaits, where the other runs go on. *)

Services == <<"AssetsService", "DidRegistry">>

DidOf(chain, a) == [chain |-> chain, address |-> a]

\* what the steps of this part leave alone
outsideSession == <<registryVars, exchangeVars, overlapVars, operationVars,
                    environment,
                    _identityToken, blockNumber, signRequests, sessionCalls,
                    last>>

NewCycle(callback, at) ==
    [cb |-> callback, pc |-> at, refreshed |-> FALSE, ran |-> <<>>]

\* the initializer of service s: AssetsService.init reads the signer
\* service's address, DidRegistry._setOperator asks the wallet for it
ServiceInit(s) ==
    IF s = "AssetsService"
    THEN _owner' = _address /\ UNCHANGED _registryDid
    ELSE _registryDid' = DidOf(_chainName, _signer.address) /\ UNCHANGED _owner

\* AssetsService.create / DidRegistry.connect: the constructor registers the
\* initializer through onInit, then the service is initialised
createService(s) ==
    /\ Len(_servicesInitializers) < Len(Services)
    /\ s = Services[Len(_servicesInitializers) + 1]
    /\ _servicesInitializers' = Append(_servicesInitializers, s)
    /\ ServiceInit(s)
    /\ UNCHANGED <<outsideSession, _signer, _providerType, _address,
                   _chainName, _publicKey, session, _walletEventListeners,
                   cycles>>

\* connect(signer, providerType) up to the first await of init()
connectCall(w, providerType) ==
    /\ session < MaxEvents
    /\ session' = session + 1
    /\ _signer' = w
    /\ _providerType' = providerType
    /\ cycles' = Append(cycles, NewCycle("connect", "init"))
    /\ UNCHANGED <<outsideSession, _address, _chainName, _publicKey,
                   _walletEventListeners, _servicesInitializers, _owner,
                   _registryDid>>

\* the callbacks emit(e) calls: those of the listeners registered for e
RECURSIVE Callbacks(_, _)
Callbacks(listeners, e) ==
    IF listeners = <<>> THEN <<>>
    ELSE (IF Head(listeners).event = e
          THEN <<NewCycle(Head(listeners).cb, "closeConnection")>>
          ELSE <<>>) \o Callbacks(Tail(listeners), e)

\* the wallet changed and raised e: emit(e) calls every callback registered
\* for e; each is suspended at its await closeConnection()
walletEvent(e, a, c) ==
    /\ session < MaxEvents
    /\ session' = session + 1
    /\ e \in EventsOf(_providerType)
    /\ _signer' = WalletAfter(e, a, c)
    /\ cycles' = cycles \o Callbacks(_walletEventListeners, e)
    /\ UNCHANGED <<outsideSession, _providerType, _address, _chainName,
                   _publicKey, _walletEventListeners, _servicesInitializers,
                   _owner, _registryDid>>

\* closeConnection() settles in run k: accChangedHandler goes on to init(),
\* the Disconnected listener is finished
closed(k) ==
    /\ cycles[k].pc = "closeConnection"
    /\ cycles' = [cycles EXCEPT ![k].pc =
          IF cycles[k].cb = "accChangedHandler" THEN "init" ELSE "done"]
    /\ UNCHANGED <<outsideSession, _signer, _providerType, _address,
                   _chainName, _publicKey, session, _walletEventListeners,
                   _servicesInitializers, _owner, _registryDid>>

\* init() of run k from its start to the loop over the initializers: the
\* address and the chain are read from the wallet, initEventHandlers()
\* registers its listeners
refreshed(k) ==
    /\ cycles[k].pc = "init"
    /\ init(_signer)
    /\ _walletEventListeners' =
          _walletEventListeners \o initEventHandlers(_providerType)
    /\ cycles' = [cycles EXCEPT ![k].pc = "initializers",
                                ![k].refreshed = TRUE]
    /\ UNCHANGED <<registryVars, exchangeVars, overlapVars, operationVars,
                   environment,
                   blockNumber, signRequests, sessionCalls, last, _signer,
                   _providerType, session, _servicesInitializers, _owner,
                   _registryDid>>

\* one iteration of `for await (const initializer of ...)` in run k
initialized(k) ==
    LET i == Len(cycles[k].ran) + 1
    IN /\ cycles[k].pc = "initializers"
       /\ i <= Len(_servicesInitializers)
       /\ ServiceInit(_servicesInitializers[i])
       /\ cycles' = [cycles EXCEPT ![k].ran =
                        Append(@, _servicesInitializers[i])]
       /\ UNCHANGED <<outsideSession, _signer, _providerType, _address,
                      _chainName, _publicKey, session,
                      _walletEventListeners, _servicesInitializers>>

\* the loop of run k is over: init() returns, and with it the handler or
\* connect
completed(k) ==
    /\ cycles[k].pc = "initializers"
    /\ Len(cycles[k].ran) >= Len(_servicesInitializers)
    /\ cycles' = [cycles EXCEPT ![k].pc = "done"]
    /\ UNCHANGED <<outsideSession, _signer, _providerType, _address,
                   _chainName, _publicKey, session, _walletEventListeners,
                   _servicesInitializers, _owner, _registryDid>>

\* the assets of the ledger and the address that owns each
AssetOwner == [a \in {"0xAsset1", "0xAsset2"} |->
                 IF a = "0xAsset1" THEN Me ELSE Other]

\* CacheClient.getOwnedAssets(did): the assets the cache lists for the owner
getOwnedAssets(ownerAddress) ==
    {a \in DOMAIN AssetOwner : AssetOwner[a] = ownerAddress}

CAN_NOT_UPDATE_NOT_CONTROLLED_DOCUMENT ==
    "CAN_NOT_UPDATE_NOT_CONTROLLED_DOCUMENT"

\* DidRegistry.updateDocument({ did, ... }): the signer's own document is
\* updated directly, the document of an asset that AssetsService lists as
\* owned is updated through its proxy, any other is refused
updateDocument(a) ==
    LET did == DidOf(_chainName, a)
        own == DidOf(_chainName, _address)
        u == [NoUpdate EXCEPT !.op = "updateDocument", !.did = a,
                              !.signer = _address]
    IN /\ documentUpdate = NoUpdate
       /\ "DidRegistry" \in Range(_servicesInitializers)
       /\ documentUpdate' =
             IF did = own
             THEN [u EXCEPT !.submitted = TRUE]
             ELSE IF a \in getOwnedAssets(_owner)
             THEN [u EXCEPT !.submitted = TRUE]
             ELSE [u EXCEPT !.error = CAN_NOT_UPDATE_NOT_CONTROLLED_DOCUMENT]
       /\ UNCHANGED <<registryVars, exchangeVars, signerVars, overlapVars,
                      sessionVars, registration, publishVars>>

SessionInit ==
    /\ SignerInit
    /\ _signer.kind = "eip191"
    /\ executionEnv = "NODE"

SessionNext ==
    \/ \E i \in 1 .. Len(Services) : createService(Services[i])
    \/ \E w \in Wallets : \E t \in ProviderTypeOf(w) :
          w.kind = "eip191" /\ connectCall(w, t)
    \/ \E e \in ProviderEvents, a \in Addresses, c \in Chains :
          walletEvent(e, a, c)
    \/ \E k \in DOMAIN cycles :
          closed(k) \/ refreshed(k) \/ initialized(k) \/ completed(k)
    \/ \E a \in Addresses \cup DOMAIN AssetOwner : updateDocument(a)

SessionSpec == SessionInit /\ [][SessionNext]_vars

----------------------------------------------------------------------------
(* AssetsService.registerAsset.  The call is suspended at the transaction,
   at every cache read and at every one-second timer. *)

\* the bound of the polling loop: `loops < 20`
MaxLoops == 20

NewIdentity == "0xAsset"

\* what the cache answers a getAssetById: the asset, nothing yet, or a
\* failed request
AssetReplies == {"asset", "none", "error"}

outsideRegistration == <<registryVars, exchangeVars, signerVars, overlapVars,
                         sessionVars, publishVars, documentUpdate>>

\* variant: the loop goes on after the asset was found
Polling_UntilBound(asset, loops) == loops < MaxLoops

\* the condition of the while loop
Polling(asset, loops) == ~asset /\ loops < MaxLoops

\* registerAsset() up to the receipt of the createIdentity transaction:
\* the identity is read from the IdentityCreated log, or send() throws
registerAsset(sent) ==
    /\ registration.pc = "idle"
    /\ registration' =
          IF sent
          THEN [registration EXCEPT !.pc = "read", !.identity = NewIdentity]
          ELSE [registration EXCEPT !.pc = "failed", !.error = "send"]
    /\ UNCHANGED outsideRegistration

\* the registration after one more getAssetById answered with reply
Read(reply, then) ==
    IF reply = "error"
    THEN [registration EXCEPT !.pc = "failed", !.error = "cache",
                              !.reads = @ + 1]
    ELSE [registration EXCEPT
            !.pc = then,
            !.reads = @ + 1,
            !.asset = (reply = "asset"),
            !.foundAt = IF reply = "asset" THEN registration.reads + 1 ELSE @]

\* the read before the loop
InitialRead(reply) ==
    /\ registration.pc = "read"
    /\ registration' = Read(reply, "loop")
    /\ UNCHANGED outsideRegistration

\* the read of one loop iteration
LoopRead(reply) ==
    /\ registration.pc = "loop"
    /\ Polling(registration.asset, registration.loops)
    /\ registration' = Read(reply, "timer")
    /\ UNCHANGED outsideRegistration

\* the timer of one loop iteration fires: loops++
Timeout ==
    /\ registration.pc = "timer"
    /\ registration' = [registration EXCEPT !.pc = "loop", !.loops = @ + 1]
    /\ UNCHANGED outsideRegistration

\* the loop is left: return identity
ReturnIdentity ==
    /\ registration.pc = "loop"
    /\ ~Polling(registration.asset, registration.loops)
    /\ registration' = [registration EXCEPT
                          !.pc = "done", !.returned = registration.identity]
    /\ UNCHANGED outsideRegistration

AssetNext ==
    \/ \E sent \in BOOLEAN : registerAsset(sent)
    \/ \E reply \in AssetReplies : InitialRead(reply) \/ LoopRead(reply)
    \/ Timeout
    \/ ReturnIdentity

\* AssetsService.create has run, registerAsset is not called yet
AssetInit ==
    /\ IamAtRest
    /\ SignerAtRest
    /\ ServicesAtRest

AssetSpec == AssetInit /\ [][AssetNext]_vars

\* every await of registerAsset settles: the cache answers, the timer fires
FairAssetSpec == AssetSpec /\ WF_vars(AssetNext)

----------------------------------------------------------------------------
(* The claims exchange (src/src/iam.ts 1153-1245): a message goes out on    *)
(* the NATS connection when there is one, else to the cache server, else    *)
(* the call throws.                                                         *)

DIDs == {"did:ethr:0xA", "did:ethr:0xB"}
ClaimTypes == {"r1.roles.o.iam"}
NATS_EXCHANGE_TOPIC == <<"claim", "exchange">>
NATSConnectionNotEstablishedError == "NATSConnectionNotEstablishedError"

\* IClaimRequest, IClaimIssuance and IClaimRejection in one shape; a field
\* a message type does not have is Undefined or empty
Message(kind, id, token, issuedToken, requester, claimIssuer, acceptedBy, isRejected) ==
    [kind |-> kind, id |-> id, token |-> token, issuedToken |-> issuedToken,
     requester |-> requester, claimIssuer |-> claimIssuer,
     acceptedBy |-> acceptedBy, isRejected |-> isRejected]
NoMessage == Message("undefined", 0, <<>>, <<>>, Undefined, <<>>, Undefined,
                     FALSE)

\* this._jsonCodec?.encode(message): the bytes of the JSON text, undefined
\* without a codec
encode(message) == [bytes |-> IF _jsonCodec THEN message ELSE NoMessage]

\* this._userClaims.createPublicClaim(data, { subject, issuer: "" })
createPublicClaim(claimType) == <<"claim", claimType, _did>>
\* this._issuerClaims.issuePublicClaim(token)
issuePublicClaim(token) == <<"issued", _did>> \o token

\* variant: the cache server is preferred to the NATS connection
Dispatch_CacheFirst(path, message, recipients) ==
    IF cacheClient
    THEN [error |-> "none", published |-> published,
          mailbox |-> Append(mailbox, [path |-> path, did |-> _did,
                                       message |-> message])]
    ELSE IF ~_natsConnection
    THEN [error |-> NATSConnectionNotEstablishedError,
          published |-> published, mailbox |-> mailbox]
    ELSE [error |-> "none",
          published |-> published \o
              [i \in 1..Len(recipients) |->
                  [topic |-> <<recipients[i]>> \o NATS_EXCHANGE_TOPIC,
                   data |-> encode(message)]],
          mailbox |-> mailbox]

\* variant: the mailbox entry is the one of the first recipient
Dispatch_KeyedByRecipient(path, message, recipients) ==
    IF ~_natsConnection
    THEN IF cacheClient
         THEN [error |-> "none", published |-> published,
               mailbox |-> Append(mailbox,
                   [path |-> path,
                    did |-> IF recipients = <<>> THEN _did
                                                ELSE recipients[1],
                    message |-> message])]
         ELSE [error |-> NATSConnectionNotEstablishedError,
               published |-> published, mailbox |-> mailbox]
    ELSE [error |-> "none",
          published |-> published \o
              [i \in 1..Len(recipients) |->
                  [topic |-> <<recipients[i]>> \o NATS_EXCHANGE_TOPIC,
                   data |-> encode(message)]],
          mailbox |-> mailbox]

\* if (!this._natsConnection) { if (this._cacheClient) return
\* this._cacheClient.<path>({ did: this._did, message }); throw ... }
\* publish(`${recipient}.${NATS_EXCHANGE_TOPIC}`, encode(message))
Dispatch(path, message, recipients) ==
    IF ~_natsConnection
    THEN IF cacheClient
         THEN [error |-> "none", published |-> published,
               mailbox |-> Append(mailbox, [path |-> path, did |-> _did,
                                            message |-> message])]
         ELSE [error |-> NATSConnectionNotEstablishedError,
               published |-> published, mailbox |-> mailbox]
    ELSE [error |-> "none",
          published |-> published \o
              [i \in 1..Len(recipients) |->
                  [topic |-> <<recipients[i]>> \o NATS_EXCHANGE_TOPIC,
                   data |-> encode(message)]],
          mailbox |-> mailbox]

ExchangeInit ==
    /\ address = Me
    /\ runningInBrowser = FALSE
    /\ ensRegistry = TRUE
    /\ cacheClient \in BOOLEAN
    /\ cacheApps = [p \in {Org} |-> <<>>]
    /\ owner = [p \in AllPaths |-> IF p \in Existing THEN Me ELSE emptyAddress]
    /\ names = Existing
    /\ defs = {Org, App, OrgRole1, OrgRole2, AppRole1}
    /\ eventLog = <<>>
    /\ pc = "idle"
    /\ call = NoCall
    /\ steps = <<>>
    /\ next = 1
    /\ inFlight = {}
    /\ applied = <<>>
    /\ returned = <<>>
    /\ error = NoError
    /\ lookups = {}
    /\ ReadsAtRest
    /\ SignerAtRest
    /\ ServicesAtRest
    /\ _did \in {MyDID, Undefined}
    /\ _natsConnection \in BOOLEAN
    /\ _jsonCodec \in BOOLEAN
    /\ _userClaims \in BOOLEAN
    /\ _issuerClaims \in BOOLEAN
    /\ published = <<>>
    /\ mailbox = <<>>
    /\ uuids = 0
    /\ claimCall = NoClaimCall
    /\ NotSubscribed

transports == <<_did, _natsConnection, _jsonCodec, _userClaims,
                _issuerClaims>>
CanSend == Len(published) + Len(mailbox) < MaxRequests

\* the end of a claims exchange call: its outcome, and what it sent
Finish(c, e, d) ==
    /\ claimCall' = [c EXCEPT !.error = e]
    /\ published' = (IF e = "none" THEN d.published ELSE published)
    /\ mailbox' = (IF e = "none" THEN d.mailbox ELSE mailbox)
    /\ UNCHANGED <<namespaceVars, signerVars, transports, subscriptionVars>>

\* variant: the request id is a fixed value instead of uuid()
createClaimRequest_FixedId(issuer, claimType) ==
    LET token == createPublicClaim(claimType)
        c == [NoClaimCall EXCEPT !.op = "createClaimRequest",
                                 !.issuer = issuer]
        message == Message("request", 1, token, <<>>, _did, issuer,
                           Undefined, FALSE)
        d == Dispatch("request", message, issuer)
    IN /\ CanSend
       /\ uuids < MaxRequests
       /\ IF _did = Undefined
          THEN Finish(c, "User not logged in", d) /\ UNCHANGED uuids
          ELSE IF ~_userClaims
          THEN Finish(c, "User claims not initialized", d) /\ UNCHANGED uuids
          ELSE /\ uuids' = uuids + 1
               /\ Finish([c EXCEPT !.id = 1, !.token = token,
                                   !.requester = _did], d.error, d)

createClaimRequest(issuer, claimType) ==
    LET token == createPublicClaim(claimType)
        c == [NoClaimCall EXCEPT !.op = "createClaimRequest",
                                 !.issuer = issuer]
        message == Message("request", uuids + 1, token, <<>>, _did, issuer,
                           Undefined, FALSE)
        d == Dispatch("request", message, issuer)
    IN /\ CanSend
       /\ uuids < MaxRequests
       /\ IF _did = Undefined
          THEN Finish(c, "User not logged in", d) /\ UNCHANGED uuids
          ELSE IF ~_userClaims
          THEN Finish(c, "User claims not initialized", d) /\ UNCHANGED uuids
          ELSE /\ uuids' = uuids + 1
               /\ Finish([c EXCEPT !.id = uuids + 1, !.token = token,
                                   !.requester = _did], d.error, d)

\* variant: the issuance goes to the topic of the issuer itself
issueClaimRequest_OwnTopic(requesterDID, id, token) ==
    LET issuedToken == issuePublicClaim(token)
        c == [NoClaimCall EXCEPT !.op = "issueClaimRequest", !.id = id,
                                 !.requester = requesterDID]
        preparedData == Message("issuance", id, <<>>, issuedToken,
                                requesterDID, <<_did>>, _did, FALSE)
        d == Dispatch("issue", preparedData, <<_did>>)
    IN /\ CanSend
       /\ UNCHANGED uuids
       /\ IF _did = Undefined
          THEN Finish(c, "User not logged in", d)
          ELSE IF ~_issuerClaims
          THEN Finish(c, "Token was not generated", d)
          ELSE Finish([c EXCEPT !.token = issuedToken], d.error, d)

issueClaimRequest(requesterDID, id, token) ==
    LET issuedToken == issuePublicClaim(token)
        c == [NoClaimCall EXCEPT !.op = "issueClaimRequest", !.id = id,
                                 !.requester = requesterDID]
        preparedData == Message("issuance", id, <<>>, issuedToken,
                                requesterDID, <<_did>>, _did, FALSE)
        d == Dispatch("issue", preparedData, <<requesterDID>>)
    IN /\ CanSend
       /\ UNCHANGED uuids
       /\ IF _did = Undefined
          THEN Finish(c, "User not logged in", d)
          ELSE IF ~_issuerClaims
          THEN Finish(c, "Token was not generated", d)
          ELSE Finish([c EXCEPT !.token = issuedToken], d.error, d)

rejectClaimRequest(id, requesterDID) ==
    LET c == [NoClaimCall EXCEPT !.op = "rejectClaimRequest", !.id = id,
                                 !.requester = requesterDID]
        preparedData == Message("rejection", id, <<>>, <<>>, requesterDID,
                                <<_did>>, Undefined, TRUE)
        d == Dispatch("reject", preparedData, <<requesterDID>>)
    IN /\ CanSend
       /\ UNCHANGED uuids
       /\ IF _did = Undefined
          THEN Finish(c, "User not logged in", d)
          ELSE Finish(c, d.error, d)

ExchangeNext ==
    \/ \E issuer \in SeqsUpTo(DIDs, MaxIssuers), t \in ClaimTypes :
         createClaimRequest(issuer, t)
    \/ \E r \in DIDs, id \in 1..MaxRequests, t \in ClaimTypes :
         issueClaimRequest(r, id, <<"claim", t, r>>)
    \/ \E r \in DIDs, id \in 1..MaxRequests : rejectClaimRequest(id, r)

ExchangeSpec == ExchangeInit /\ [][ExchangeNext]_vars

----------------------------------------------------------------------------
(* The operations that need a connected identity: the claim requests, which
   test _did, and the delete and transfer planners, which test _address in
   validateOwnership. *)

GuardInit ==
    /\ address \in {Me, Undefined}
    /\ runningInBrowser = FALSE
    /\ ensRegistry = TRUE
    /\ cacheClient \in BOOLEAN
    /\ cacheApps = [p \in {Org} |-> <<>>]
    /\ owner = [p \in AllPaths |-> IF p \in Existing THEN Me ELSE emptyAddress]
    /\ names = Existing
    /\ defs = {Org, App, OrgRole1, OrgRole2, AppRole1}
    /\ eventLog = <<>>
    /\ pc = "idle"
    /\ call = NoCall
    /\ steps = <<>>
    /\ next = 1
    /\ inFlight = {}
    /\ applied = <<>>
    /\ returned = <<>>
    /\ error = NoError
    /\ lookups = {}
    /\ ReadsAtRest
    /\ SignerAtRest
    /\ ServicesAtRest
    /\ _did \in {MyDID, Undefined}
    /\ _natsConnection \in BOOLEAN
    /\ _jsonCodec \in BOOLEAN
    /\ _userClaims \in BOOLEAN
    /\ _issuerClaims \in BOOLEAN
    /\ published = <<>>
    /\ mailbox = <<>>
    /\ uuids = 0
    /\ claimCall = NoClaimCall
    /\ NotSubscribed

GuardNext ==
    \/ \E r \in DIDs, t \in ClaimTypes : createClaimRequest(<<r>>, t)
    \/ \E r \in DIDs, t \in ClaimTypes :
         issueClaimRequest(r, 1, <<"claim", t, r>>)
    \/ \E r \in DIDs : rejectClaimRequest(1, r)
    \/ \E n \in {Org, App} : validateOwnershipCall(n, TypeOf(n))
    \/ deleteOrganization(Org, TRUE)
    \/ deleteApplication(App, TRUE)
    \/ \E o \in NewOwners : changeOrgOwnership(Org, o, TRUE)
    \/ \E o \in NewOwners : changeAppOwnership(App, o, TRUE)

GuardSpec == GuardInit /\ [][GuardNext]_vars

----------------------------------------------------------------------------
(* IAM.publishPublicClaim *)

\* a claim token: the issuer it names and the key that signed it
ClaimTokens == [iss : DIDs, signedBy : DIDs]

\* ClaimsUser.verifySignature(token, issuer)
verifySignature(token, issuer) == token.signedBy = issuer

\* the url the content store gives a saved token
UrlOf(token) == <<"ipfs", token>>

\* what _document.update answers: updated, not updated, or it throws
UpdateOutcomes == {"true", "false", "throw"}

\* updateDidDocument(options): the outcome and the endpoints of the
\* document afterwards
updateDidDocument(url, outcome) ==
    IF ~runningInBrowser
    THEN [error |-> "MethodNotAvailableInNodeEnvError", value |-> FALSE,
          service |-> service, effects |-> <<>>]
    ELSE IF _document
    THEN CASE outcome = "true" ->
                [error |-> "none", value |-> TRUE,
                 service |-> Append(service, [serviceEndpoint |-> url]),
                 effects |-> <<"update">>]
           [] outcome = "false" ->
                [error |-> "none", value |-> FALSE, service |-> service,
                 effects |-> <<"update">>]
           [] OTHER ->
                [error |-> "update", value |-> FALSE, service |-> service,
                 effects |-> <<"update">>]
    ELSE [error |-> "none", value |-> FALSE, service |-> service,
          effects |-> <<>>]

\* the outcome of a publishPublicClaim call: what is in the store and in
\* the document afterwards, and what the call returned or threw
Published(token, store, endpoints, effects, value, e) ==
    /\ ipfsStore' = store
    /\ service' = endpoints
    /\ publication' = [op |-> "publishPublicClaim", token |-> token,
                       effects |-> effects, returned |-> value,
                       error |-> e]
    /\ UNCHANGED <<registryVars, exchangeVars, signerVars, overlapVars,
                   sessionVars, registration, documentUpdate, _jwt,
                   _document>>

publishPublicClaim(token, saved, outcome) ==
    LET url == UrlOf(token)
        u == updateDidDocument(url, outcome)
    IN /\ Len(ipfsStore) < MaxSaved
       /\ IF ~_userClaims
          THEN Published(token, ipfsStore, service, <<>>, <<"null">>, "none")
          ELSE IF ~_jwt
          THEN Published(token, ipfsStore, service, <<>>, <<>>,
                         "JWT was not initialized")
          ELSE IF ~verifySignature(token, token.iss)
          THEN Published(token, ipfsStore, service, <<"verify">>, <<>>,
                         "Incorrect signature")
          ELSE IF ~saved
          THEN Published(token, ipfsStore, service, <<"verify", "save">>,
                         <<>>, "save")
          ELSE Published(token, Append(ipfsStore, token), u.service,
                         <<"verify", "save">> \o u.effects,
                         IF u.error = "none" THEN url ELSE <<>>,
                         u.error)

PublishInit ==
    /\ address = Me
    /\ runningInBrowser \in BOOLEAN
    /\ ensRegistry = TRUE
    /\ cacheClient = FALSE
    /\ cacheApps = [p \in {Org} |-> <<>>]
    /\ owner = [p \in AllPaths |-> IF p \in Existing THEN Me ELSE emptyAddress]
    /\ names = Existing
    /\ defs = {Org, App, OrgRole1, OrgRole2, AppRole1}
    /\ eventLog = <<>>
    /\ pc = "idle"
    /\ call = NoCall
    /\ steps = <<>>
    /\ next = 1
    /\ inFlight = {}
    /\ applied = <<>>
    /\ returned = <<>>
    /\ error = NoError
    /\ lookups = {}
    /\ ReadsAtRest
    /\ SignerAtRest
    /\ tasks = [t \in Tasks |-> NoTask]
    /\ _walletEventListeners = initEventHandlers(_providerType)
    /\ _servicesInitializers = <<>>
    /\ cycles = <<>>
    /\ _owner = Undefined
    /\ _registryDid = Undefined
    /\ registration = NoRegistration
    /\ _jwt \in BOOLEAN
    /\ _document \in BOOLEAN
    /\ ipfsStore = <<>>
    /\ service = <<>>
    /\ publication = NoPublication
    /\ documentUpdate = NoUpdate
    /\ _did = MyDID
    /\ _natsConnection = FALSE
    /\ _jsonCodec = FALSE
    /\ _userClaims \in BOOLEAN
    /\ _issuerClaims = TRUE
    /\ published = <<>>
    /\ mailbox = <<>>
    /\ uuids = 0
    /\ claimCall = NoClaimCall
    /\ NotSubscribed

PublishNext ==
    \E token \in ClaimTokens, saved \in BOOLEAN, outcome \in UpdateOutcomes :
        publishPublicClaim(token, saved, outcome)

PublishSpec == PublishInit /\ [][PublishNext]_vars

(***************************************************************************)
(* The subscription loop of subscribeToMessages                            *)
(***************************************************************************)

\* what peers publish: the bytes of a request and of a rejection
InboundData ==
    {[bytes |-> Message("request", 1, <<"claim", "role", "did:ethr:0xA">>,
                        <<>>, "did:ethr:0xA", <<MyDID>>, Undefined, FALSE)],
     [bytes |-> Message("rejection", 2, <<>>, <<>>, MyDID,
                        <<"did:ethr:0xB">>, Undefined, TRUE)]}

\* this._jsonCodec?.decode(msg.data): undefined without a codec
decode(data) == IF _jsonCodec THEN data.bytes ELSE NoMessage
DecodeAll(q) == [i \in 1..Len(q) |-> decode(q[i])]

\* the default value of the topic parameter
DefaultTopic == <<_did>> \o NATS_EXCHANGE_TOPIC
Topics == {DefaultTopic, <<"did:ethr:0xB">> \o NATS_EXCHANGE_TOPIC}

\* the call up to the start of the loop
subscribeToMessages(topic) ==
    /\ subscription.state = "none"
    /\ claimCall.op = "none"
    /\ IF ~_natsConnection
       THEN /\ claimCall' = [NoClaimCall EXCEPT
                                !.op = "subscribeToMessages",
                                !.error = NATSConnectionNotEstablishedError]
            /\ UNCHANGED subscription
       ELSE /\ claimCall' = [NoClaimCall EXCEPT !.op = "subscribeToMessages"]
            /\ subscription' = [state |-> "open", topic |-> topic]
    /\ UNCHANGED <<namespaceVars, signerVars, transports, published, mailbox,
                   uuids, inbound, arrived, handled>>

\* the server delivers a message published to the subscribed topic
Arrive(data) ==
    /\ subscription.state = "open"
    /\ Len(arrived) < MaxInbound
    /\ inbound' = Append(inbound, data)
    /\ arrived' = Append(arrived, data)
    /\ UNCHANGED <<namespaceVars, signerVars, transports, published, mailbox,
                   uuids, claimCall, subscription, handled>>

\* variant: the loop body leaves the message at the head of the queue
HandleNext_NoPop ==
    /\ subscription.state \in {"open", "draining"}
    /\ inbound # <<>>
    /\ Len(handled) < MaxInbound + 1
    /\ handled' = Append(handled, decode(Head(inbound)))
    /\ UNCHANGED inbound
    /\ UNCHANGED <<namespaceVars, signerVars, transports, published, mailbox,
                   uuids, claimCall, subscription, arrived>>

\* one turn of the for await loop: decode the next message, call the handler
HandleNext ==
    /\ subscription.state \in {"open", "draining"}
    /\ inbound # <<>>
    /\ handled' = Append(handled, decode(Head(inbound)))
    /\ inbound' = Tail(inbound)
    /\ UNCHANGED <<namespaceVars, signerVars, transports, published, mailbox,
                   uuids, claimCall, subscription, arrived>>

\* the subscription is cancelled or the connection drops: nothing arrives
\* any more
Drop ==
    /\ subscription.state = "open"
    /\ subscription' = [subscription EXCEPT !.state = "draining"]
    /\ UNCHANGED <<namespaceVars, signerVars, transports, published, mailbox,
                   uuids, claimCall, inbound, arrived, handled>>

\* the iterator is done: the loop is left and the call returns; whether
\* messages still queued are yielded first is the transport's choice
LoopEnd ==
    /\ subscription.state = "draining"
    /\ subscription' = [subscription EXCEPT !.state = "ended"]
    /\ inbound' = <<>>
    /\ UNCHANGED <<namespaceVars, signerVars, transports, published, mailbox,
                   uuids, claimCall, arrived, handled>>

SubscribeNext ==
    \/ \E topic \in Topics : subscribeToMessages(topic)
    \/ \E data \in InboundData : Arrive(data)
    \/ HandleNext
    \/ Drop
    \/ LoopEnd

SubscribeSpec == ExchangeInit /\ [][SubscribeNext]_vars

(***************************************************************************)
(* Child enumeration by event scanning                                     *)
(***************************************************************************)

\* names of the event log: the scanned domain apps.o.iam, two applications
\* under it, the roles node of one of them, and a name outside the domain
ScanNames == {OrgApps, App, NewApp, AppRoles, OrgRole1}
ScanDomains == {OrgApps, App, Org}

ScanInit ==
    /\ address = Me
    /\ runningInBrowser = FALSE
    /\ ensRegistry \in BOOLEAN
    /\ cacheClient = FALSE
    /\ cacheApps = [p \in {Org} |-> <<>>]
    /\ owner = [p \in AllPaths |-> IF p \in Existing THEN Me ELSE emptyAddress]
    /\ names = Existing
    /\ defs = {Org, App, OrgRole1, OrgRole2, AppRole1}
    /\ eventLog \in SeqsUpTo(ScanNames, MaxScan)
    /\ pc = "idle"
    /\ call = NoCall
    /\ steps = <<>>
    /\ next = 1
    /\ inFlight = {}
    /\ applied = <<>>
    /\ returned = <<>>
    /\ error = NoError
    /\ lookups = {}
    /\ ReadsAtRest
    /\ SignerAtRest
    /\ ServicesAtRest
    /\ ExchangeAtRest

\* a call of IAM.getSubdomains({ domain })
getSubdomainsCall(domain) ==
    /\ scan = NoScan
    /\ scan' = [domain |-> domain,
                status |-> getSubdomains(domain).status,
                value |-> getSubdomains(domain).value]
    /\ UNCHANGED <<address, runningInBrowser, ensRegistry, cacheClient,
                   cacheApps, owner, names, defs, eventLog, pc, call, steps,
                   next, inFlight, applied, returned, error, lookups,
                   documentVars, serviceVars, exchangeVars, signerVars>>

ScanNext == \E domain \in ScanDomains : getSubdomainsCall(domain)

ScanSpec == ScanInit /\ [][ScanNext]_vars

(***************************************************************************)
(* Reads through the cache client: DID documents and the type-dispatched   *)
(* lookups.  `reads` lists the requests a call made, in order.             *)
(***************************************************************************)

\* answers of the cache server: success, or a failure with an HTTP status,
\* or a failure without a response
CacheReplies == {"ok", "404", "401", "500", "network"}
\* err.message of the failure
CacheError(reply) ==
    CASE reply = "404" -> "Request failed with status code 404"
      [] reply = "401" -> "Request failed with status code 401"
      [] reply = "500" -> "Request failed with status code 500"
      [] OTHER -> "Network Error"
ENSTypeNotSupportedError == "ENSTypeNotSupportedError"
CacheClientNotProvidedError == "CacheClientNotProvidedError"
ENSResolverNotInitializedError == "ENSResolverNotInitializedError"
\* the type arguments of a call: the three namespace types, a string that
\* is none of them, and no type
TypeArgs == ENSNamespaceTypes \cup {"did", Undefined}

ReadInit ==
    /\ address \in {Me, Undefined}
    /\ runningInBrowser = FALSE
    /\ ensRegistry = TRUE
    /\ cacheClient \in BOOLEAN
    /\ cacheApps = [p \in {Org} |-> <<>>]
    /\ owner = [p \in AllPaths |-> IF p \in Existing THEN Me ELSE emptyAddress]
    /\ names = Existing
    /\ defs = {Org, App, OrgRole1, OrgRole2, AppRole1}
    /\ eventLog = <<>>
    /\ pc = "idle"
    /\ call = NoCall
    /\ steps = <<>>
    /\ next = 1
    /\ inFlight = {}
    /\ applied = <<>>
    /\ returned = <<>>
    /\ error = NoError
    /\ lookups = {}
    /\ scan = NoScan
    /\ _resolver \in BOOLEAN
    /\ _ensResolver \in BOOLEAN
    /\ cacheReply \in CacheReplies
    /\ readCall = NoRead
    /\ SignerAtRest
    /\ ServicesAtRest
    /\ ExchangeAtRest

\* the end of a read operation
Return(op, type, did, e, value, reads) ==
    /\ readCall = NoRead
    /\ pc = "idle"
    /\ readCall' = [op |-> op, type |-> type, did |-> did, error |-> e,
                    value |-> value, reads |-> reads]
    /\ UNCHANGED <<address, runningInBrowser, ensRegistry, cacheClient,
                   cacheApps, owner, names, defs, eventLog, pc, call, steps,
                   next, inFlight, applied, returned, error, lookups, scan,
                   _resolver, _ensResolver, cacheReply, serviceVars,
                   exchangeVars, signerVars>>

\* a read of the cache client: its value, or the rejection of the request
CacheRead(op, type, request) ==
    IF cacheReply = "ok"
    THEN Return(op, type, Undefined, "none", "cache", <<request>>)
    ELSE Return(op, type, Undefined, CacheError(cacheReply), "none",
                <<request>>)

\* resolver.read(did) followed, with includeClaims, by downloadClaims
DocumentReads(reader, includeClaims) ==
    IF includeClaims THEN <<reader, "downloadClaims">> ELSE <<reader>>

\* IAM.getDidDocument
getDidDocument(did, includeClaims) ==
    LET op == "getDidDocument"
        cached == <<"cacheClient.getDidDocument">>
        raw == DocumentReads("resolver.read", includeClaims)
    IN IF cacheClient /\ did # Undefined
       THEN IF cacheReply = "ok"
            THEN Return(op, "none", did, "none", "cache", cached)
            ELSE IF cacheReply = "404"
            THEN IF _resolver
                 THEN Return(op, "none", did, "none", "resolver",
                             cached \o <<"cacheClient.addDIDToWatchList">>
                                    \o raw)
                 ELSE Return(op, "none", did, CacheError(cacheReply), "none",
                             cached \o <<"cacheClient.addDIDToWatchList">>)
            ELSE Return(op, "none", did, CacheError(cacheReply), "none",
                        cached)
       ELSE IF did # Undefined /\ _resolver
       THEN Return(op, "none", did, "none", "resolver", raw)
       ELSE Return(op, "none", did, "none", "null", <<>>)

\* DidRegistry.getDidDocument
DidRegistryGetDidDocument(did, includeClaims) ==
    LET op == "DidRegistry.getDidDocument"
        cached == <<"cacheClient.getDidDocument">>
        raw == DocumentReads("operator.read", includeClaims)
    IN IF cacheClient
       THEN IF cacheReply = "ok"
            THEN Return(op, "none", did, "none", "cache", cached)
            ELSE IF cacheReply = "401"
            THEN Return(op, "none", did, CacheError(cacheReply), "none",
                        cached)
            ELSE Return(op, "none", did, "none", "operator", cached \o raw)
       ELSE Return(op, "none", did, "none", "operator", raw)

\* IAM.getDefinition
getDefinition(type, namespace) ==
    LET op == "getDefinition"
    IN IF cacheClient /\ type # Undefined
       THEN CASE type = Roles ->
                   CacheRead(op, type, "cacheClient.getRoleDefinition")
              [] type = Application ->
                   CacheRead(op, type, "cacheClient.getAppDefinition")
              [] type = Organization ->
                   CacheRead(op, type, "cacheClient.getOrgDefinition")
              [] OTHER ->
                   Return(op, type, Undefined, ENSTypeNotSupportedError,
                          "none", <<>>)
       ELSE IF _ensResolver
       THEN Return(op, type, Undefined, "none", "metadata",
                   <<"ensResolver.text">>)
       ELSE Return(op, type, Undefined, ENSResolverNotInitializedError,
                   "none", <<>>)

\* IAM.getRolesByNamespace
getRolesByNamespace(parentType, namespace) ==
    LET op == "getRolesByNamespace"
    IN IF ~cacheClient
       THEN Return(op, parentType, Undefined, CacheClientNotProvidedError,
                   "none", <<>>)
       ELSE CASE parentType = Organization ->
                   CacheRead(op, parentType, "cacheClient.getOrganizationRoles")
              [] parentType = Application ->
                   CacheRead(op, parentType, "cacheClient.getApplicationRoles")
              [] OTHER ->
                   Return(op, parentType, Undefined, ENSTypeNotSupportedError,
                          "none", <<>>)

\* IAM.getENSTypesByOwner
getENSTypesByOwner(type, o) ==
    LET op == "getENSTypesByOwner"
    IN IF ~cacheClient
       THEN Return(op, type, Undefined, CacheClientNotProvidedError, "none",
                   <<>>)
       ELSE CASE type = Organization ->
                   CacheRead(op, type, "cacheClient.getOrganizationsByOwner")
              [] type = Application ->
                   CacheRead(op, type, "cacheClient.getApplicationsByOwner")
              [] type = Roles ->
                   CacheRead(op, type, "cacheClient.getRolesByOwner")
              [] OTHER ->
                   Return(op, type, Undefined, ENSTypeNotSupportedError,
                          "none", <<>>)

\* variant: roles are searched like organizations and applications
getENSTypesBySearchPhrase_Roles(type, search) ==
    LET op == "getENSTypesBySearchPhrase"
    IN IF ~cacheClient
       THEN Return(op, type, Undefined, CacheClientNotProvidedError, "none",
                   <<>>)
       ELSE CASE type = Organization ->
                   CacheRead(op, type,
                             "cacheClient.getOrganizationsBySearchPhrase")
              [] type = Application ->
                   CacheRead(op, type,
                             "cacheClient.getApplicationsBySearchPhrase")
              [] type = Roles ->
                   CacheRead(op, type, "cacheClient.getRolesBySearchPhrase")
              [] OTHER ->
                   Return(op, type, Undefined, ENSTypeNotSupportedError,
                          "none", <<>>)

\* IAM.getENSTypesBySearchPhrase
getENSTypesBySearchPhrase(type, search) ==
    LET op == "getENSTypesBySearchPhrase"
    IN IF ~cacheClient
       THEN Return(op, type, Undefined, CacheClientNotProvidedError, "none",
                   <<>>)
       ELSE CASE type = Organization ->
                   CacheRead(op, type,
                             "cacheClient.getOrganizationsBySearchPhrase")
              [] type = Application ->
                   CacheRead(op, type,
                             "cacheClient.getApplicationsBySearchPhrase")
              [] OTHER ->
                   Return(op, type, Undefined, ENSTypeNotSupportedError,
                          "none", <<>>)

ReadNext ==
    \/ \E did \in {MyDID, Undefined}, ic \in BOOLEAN : getDidDocument(did, ic)
    \/ \E ic \in BOOLEAN : DidRegistryGetDidDocument(MyDID, ic)
    \/ \E t \in TypeArgs : getDefinition(t, Org)
    \/ \E t \in TypeArgs : getRolesByNamespace(t, Org)
    \/ \E t \in TypeArgs : getENSTypesByOwner(t, Me)
    \/ \E t \in TypeArgs : getENSTypesBySearchPhrase(t, "o")
    \/ \E n \in {Org, App, NewOrg}, t \in TypeArgs :
         readCall = NoRead /\ validateOwnershipCall(n, t)

ReadSpec == ReadInit /\ [][ReadNext]_vars

----------------------------------------------------------------------------
(* Properties *)

\* the validation set of a namespace by node type
ValidationSet(N, type) ==
    CASE type = Roles -> {Tail(N)}
      [] type = Application -> {N, Tail(N), <<"roles">> \o N}
      [] type = Organization ->
            {N, Tail(N), <<"roles">> \o N, <<"apps">> \o N}
      [] OTHER -> {}

Started == pc \in {"exec", "done", "failed"}

\* <<fn, path>> of every step of a list
FnPath(s) == [i \in 1..Len(s) |-> <<s[i].fn, s[i].path>>]

IsPrefix(a, b) == Len(a) <= Len(b) /\ a = SubSeq(b, 1, Len(a))

C2_LookupSet ==
    (pc = "done" /\ call.op = "validateOwnership") =>
        LET N == call.namespace
        IN /\ call.type = Roles => lookups = {Tail(N)}
           /\ call.type = Application =>
                lookups = {N, Tail(N), <<"roles">> \o N}
           /\ call.type = Organization =>
                lookups = {N, Tail(N), <<"roles">> \o N, <<"apps">> \o N}
           /\ Range(returned) = {p \in lookups : getOwner(p) # address}

C2_Witness ==
    /\ pc = "done" /\ call.op = "validateOwnership"
    /\ call.type = Roles /\ call.namespace = OrgRole1
    /\ owner[OrgRole1] = Other
    /\ returned = <<>>

GuardedOps == {"changeOrgOwnership", "changeAppOwnership",
               "changeRoleOwnership", "deleteOrganization",
               "deleteApplication", "deleteRole"}

\* C3: when validateOwnership returns a non-empty list, each of the six
\* guarded operations throws the ownership error carrying exactly that
\* list, with no mutation applied and no step list built or returned.
C3_OwnershipErrorFirst ==
    (call.op \in GuardedOps /\ pc # "idle" /\ applied = <<>>) =>
        LET v == validateOwnership(call.namespace, call.type)
        IN (v.error = "none" /\ Len(v.list) > 0) =>
             /\ pc = "error"
             /\ error.name = (IF call.op \in {"deleteOrganization",
                                  "deleteApplication", "deleteRole"}
                              THEN "DeletingNamespaceNotPossibleError"
                              ELSE "ChangeOwnershipNotPossibleError")
             /\ error.namespace = call.namespace
             /\ error.notOwnedNamespaces = v.list
             /\ steps = <<>> /\ returned = <<>>

C3_Witness ==
    /\ pc = "error" /\ call.op = "deleteOrganization" /\ call.returnSteps
    /\ error.notOwnedNamespaces = <<OrgRoles>>
    /\ applied = <<>>

\* C4: createOrganization builds exactly the 7 steps create org, name org,
\* define org, create roles, name roles, create apps, name apps; executing
\* applies them in that order and dry mode returns them in that order.
C4_CreateOrganizationOrder ==
    (call.op = "createOrganization" /\ Started) =>
        LET N == call.namespace
        IN /\ FnPath(steps) =
                << <<"createSubdomain", N>>,
                   <<"setDomainName", N>>,
                   <<"setRoleDefinition", N>>,
                   <<"createSubdomain", <<"roles">> \o N>>,
                   <<"setDomainName", <<"roles">> \o N>>,
                   <<"createSubdomain", <<"apps">> \o N>>,
                   <<"setDomainName", <<"apps">> \o N>> >>
           /\ IsPrefix(applied, steps)
           /\ pc = "done" =>
                IF call.returnSteps
                THEN returned = steps /\ applied = <<>>
                ELSE applied = steps

C4_Witness ==
    /\ call.op = "createOrganization" /\ pc = "done" /\ ~call.returnSteps
    /\ Len(applied) = 7
    /\ owner[<<"apps">> \o NewOrg] = Me

\* C5: createApplication builds exactly the 5 steps create, name, define,
\* create roles anchor, name roles anchor (no apps anchor); createRole
\* builds exactly the 3 steps create, name, define (no anchors).
C5_CreateAppRoleOrder ==
    /\ (call.op = "createApplication" /\ Started) =>
        LET N == call.namespace
        IN /\ FnPath(steps) =
                << <<"createSubdomain", N>>,
                   <<"setDomainName", N>>,
                   <<"setRoleDefinition", N>>,
                   <<"createSubdomain", <<"roles">> \o N>>,
                   <<"setDomainName", <<"roles">> \o N>> >>
           /\ IsPrefix(applied, steps)
    /\ (call.op = "createRole" /\ Started) =>
        LET N == call.namespace
        IN /\ FnPath(steps) =
                << <<"createSubdomain", N>>,
                   <<"setDomainName", N>>,
                   <<"setRoleDefinition", N>> >>
           /\ IsPrefix(applied, steps)

C5_Witness ==
    /\ call.op = "createRole" /\ pc = "done" /\ ~call.returnSteps
    /\ Len(applied) = 3
    /\ NewRole \in defs

\* namespaces a list of steps acts on
PathsOf(s) == [i \in 1..Len(s) |-> s[i].path]

\* index of the step of s that acts on path p, 0 when there is none
IndexOf(s, p) ==
    IF \E i \in 1..Len(s) : s[i].path = p
    THEN CHOOSE i \in 1..Len(s) : s[i].path = p
    ELSE 0

\* the order C6 and C8 require of a reversed plan on namespace N
ChildrenFirst(s, N, withApps) ==
    LET rolesN == <<"roles">> \o N
        appsN == <<"apps">> \o N
    IN /\ Len(s) > 0 /\ s[Len(s)].path = N
       /\ IndexOf(s, rolesN) > 0
       /\ \A i \in 1..Len(s) :
            (Len(s[i].path) > 0 /\ Tail(s[i].path) = rolesN)
                => i < IndexOf(s, rolesN)
       /\ withApps => IndexOf(s, rolesN) < IndexOf(s, appsN)
       /\ IndexOf(s, rolesN) < Len(s)
       /\ \A i, j \in 1..Len(s) : i # j => s[i].path # s[j].path

\* C6: deleteOrganization and deleteApplication execute, and return in dry
\* mode, their steps with every role child before the roles anchor, the
\* roles anchor before the apps anchor (organization) and the node last.
C6_DeleteChildrenFirst ==
    (call.op \in {"deleteOrganization", "deleteApplication"} /\ Started) =>
        /\ \A i \in 1..Len(steps) : steps[i].fn = "deleteSubdomain"
        /\ ChildrenFirst(steps, call.namespace,
                         call.op = "deleteOrganization")
        /\ IsPrefix(applied, steps)
        /\ pc = "done" =>
             IF call.returnSteps THEN returned = steps ELSE applied = steps

C6_Witness ==
    /\ call.op = "deleteOrganization" /\ pc = "done" /\ ~call.returnSteps
    /\ PathsOf(applied) = <<OrgRole2, OrgRole1, OrgRoles, OrgApps, Org>>
    /\ owner[Org] = emptyAddress

\* full names of the role children that enumeration discovers under
\* roles.N, in discovery order
DiscoveredRoles(N) ==
    LET r == RolesOf(N)
    IN [i \in 1..Len(r) |-> <<r[i]>> \o <<"roles">> \o N]

\* C7 as stated: the deletion plan of an organization lists org, apps.org,
\* roles.org, then the role children in reverse discovery order.
C7_PlanOrgFirst ==
    (call.op = "deleteOrganization" /\ Started) =>
        LET N == call.namespace
        IN PathsOf(steps) =
             <<N, <<"apps">> \o N, <<"roles">> \o N>>
             \o Reverse(DiscoveredRoles(N))

\* C7 amended: the deletion plan of an organization lists the role
\* children in reverse discovery order, then roles.org, apps.org and org.
C7_PlanOrgLast ==
    (call.op = "deleteOrganization" /\ Started) =>
        LET N == call.namespace
        IN PathsOf(steps) =
             Reverse(DiscoveredRoles(N))
             \o <<<<"roles">> \o N, <<"apps">> \o N, N>>

C7_Witness ==
    /\ call.op = "deleteOrganization" /\ pc = "done" /\ call.returnSteps
    /\ eventLog = <<OrgRole1, OrgRole2>>
    /\ PathsOf(returned) = <<OrgRole2, OrgRole1, OrgRoles, OrgApps, Org>>

\* C8: changeOrgOwnership and changeAppOwnership execute, and return in
\* dry mode, their steps with every role child before the roles anchor,
\* the roles anchor before the apps anchor (organization) and the node
\* last, and every step transfers to the newOwner of the call.
C8_TransferChildrenFirst ==
    (call.op \in {"changeOrgOwnership", "changeAppOwnership"} /\ Started) =>
        /\ \A i \in 1..Len(steps) :
             /\ steps[i].fn = "changeSubdomainOwner"
             /\ steps[i].newOwner = call.newOwner
        /\ ChildrenFirst(steps, call.namespace,
                         call.op = "changeOrgOwnership")
        /\ IsPrefix(applied, steps)
        /\ \A i \in 1..Len(applied) : owner[applied[i].path] = call.newOwner
        /\ pc = "done" =>
             IF call.returnSteps THEN returned = steps ELSE applied = steps

C8_Witness ==
    /\ call.op = "changeOrgOwnership" /\ pc = "done" /\ ~call.returnSteps
    /\ PathsOf(applied) = <<OrgRole2, OrgRole1, OrgRoles, OrgApps, Org>>
    /\ \A p \in {OrgRole1, OrgRole2, OrgRoles, OrgApps, Org} :
         owner[p] = NewOwner

StrictlyUnder(name, domain) ==
    EndsWith(name, domain) /\ Len(name) > Len(domain)

\* the organization has a child application: the cache client reports one
\* when it is configured, otherwise an event names one under apps.N
OrgHasChildApps(N) ==
    IF cacheClient
    THEN Len(cacheApps[N]) > 0
    ELSE \E i \in 1..Len(eventLog) :
            StrictlyUnder(eventLog[i], <<"apps">> \o N)

\* C9: deleteOrganization and changeOrgOwnership on an organization with
\* one or more child applications fail before any step executes and before
\* any step list is returned.
C9_ChildAppsBlock ==
    (call.op \in {"deleteOrganization", "changeOrgOwnership"}
        /\ pc # "idle" /\ OrgHasChildApps(call.namespace)) =>
        /\ pc = "error"
        /\ applied = <<>>
        /\ returned = <<>>

\* an event names a child application under apps.N of application N
AppHasChildApps(N) ==
    \E i \in 1..Len(eventLog) : StrictlyUnder(eventLog[i], <<"apps">> \o N)

AppOps == {"deleteApplication", "changeAppOwnership"}

----------------------------------------------------------------------------
(* Plan execution *)

\* C11: at no time are two steps of an executing plan in flight, and the
\* step in flight is the one after the steps already completed: step n+1
\* starts only after steps 1..n have completed.
C11_OneStepInFlight ==
    /\ Cardinality(inFlight) <= 1
    /\ inFlight # {} =>
         /\ pc = "exec"
         /\ inFlight = {Len(applied) + 1}
         /\ IsPrefix(applied, steps)

C11_Witness ==
    /\ call.op = "createOrganization"
    /\ inFlight = {2}
    /\ Len(applied) = 1

\* a step in flight settles without its primitive having been applied
Rejected ==
    /\ pc = "exec"
    /\ \E i \in inFlight : i \notin inFlight'
    /\ applied' = applied

\* C12: when a step is rejected the operation ends with the rejection as its
\* error, the ledger keeps the effects of the steps applied before it, and
\* afterwards no step is started, none is retried and nothing changes.
C12_FailureStops ==
    [][/\ Rejected =>
            /\ pc' = "failed"
            /\ error'.name = "TransactionRejected"
            /\ inFlight' = {}
            /\ returned' = <<>>
            /\ ledger' = ledger
       /\ pc = "failed" => UNCHANGED vars]_vars

C12_Witness ==
    /\ call.op = "createOrganization"
    /\ pc = "failed"
    /\ Len(applied) = 3
    /\ inFlight = {}
    /\ owner[NewOrg] = Me
    /\ NewOrg \in names
    /\ NewOrg \in defs
    /\ owner[<<Roles>> \o NewOrg] = emptyAddress

\* C13 as stated: the error of a failed plan carries the index or the
\* description of the step that failed.
C13_FailureNamesStep ==
    pc = "failed" =>
        \/ error.step = Len(applied) + 1
        \/ error.info = steps[Len(applied) + 1].info

\* C14: a call with returnSteps = true that passes its preconditions returns
\* its step list and starts none of the steps: no transition of the call
\* changes the ledger.
C14_DryRun ==
    [][call'.returnSteps =>
         /\ ledger' = ledger
         /\ applied' = <<>>
         /\ inFlight' = {}
         /\ pc' \in {"done", "error"}
         /\ pc' = "done" => (returned' = steps' /\ Len(returned') > 0)]_vars

C14_Witness ==
    /\ call.op = "deleteOrganization"
    /\ call.returnSteps
    /\ pc = "done"
    /\ Len(returned) >= 5
    /\ applied = <<>>
    /\ owner[Org] = Me

----------------------------------------------------------------------------
(* Identity token *)

Conforming(w) == w.kind \in {"eip191", "raw"}
\* the step is a call that derived, or tried to derive, the pair
Derivation ==
    /\ signRequests' # signRequests
    /\ last'.op \in {"publicKeyAndIdentityToken", "publicKey"}

\* No derivation completes: the signature signMessage accepted was made
\* over hashMessage(message), and line 227 recovers it against
\* hashMessage(digest), the hash of that digest.
IdentityTokenNeverSet == _identityToken = NullToken

C16_ReconnectInvalidates ==
    [][session' = session + 1 =>
         /\ _publicKey' \in {NullKey, PubKeyOf(_address')}
         /\ _identityToken' # NullToken => _identityToken'.iss = _address']_vars

\* C17: signMessage requests two signatures, one over the message and one
\* over its prefixed digest; it returns the first if it recovers to the
\* known address, else the second if that one does, and else throws the
\* non-conforming-signer error and returns no signature.
C17_SignMessage ==
    [][(last'.op = "signMessage" /\ signRequests' # signRequests) =>
         LET m == Digest(_chainName, _address, blockNumber, 0)
             raw == WalletSign(_signer, m)
             pre == WalletSign(_signer, hashMessage(m))
             okRaw == recoverAddress(hashMessage(m), raw) = _address
             okPre == recoverAddress(hashMessage(m), pre) = _address
         IN /\ signRequests' = signRequests + 2
            /\ okRaw => (last'.status = "ok" /\ last'.sig = raw)
            /\ (~okRaw /\ okPre) => (last'.status = "ok" /\ last'.sig = pre)
            /\ (~okRaw /\ ~okPre) =>
                 (last'.status = NON_EIP191_SIGNER /\ last'.sig = NullSig)
            /\ last'.status = "ok" =>
                 recoverAddress(hashMessage(m), last'.sig) = _address]_vars

C17_Witness ==
    /\ last.op = "signMessage"
    /\ last.status = "ok"
    /\ _signer.kind = "raw"
    /\ last.sig = Sig(_address, Digest(_chainName, _address, blockNumber, 1))
    /\ signRequests = 2

\* C18: a derivation that fails with the non-conforming-signer error has
\* made exactly the two signature requests of signMessage, returns no pair
\* and leaves the cached public key and identity token as they were.
C18_FailureKeepsCache ==
    [][(Derivation /\ last'.status = NON_EIP191_SIGNER) =>
         /\ signRequests' = signRequests + 2
         /\ _publicKey' = _publicKey
         /\ _identityToken' = _identityToken
         /\ last'.publicKey = NullKey
         /\ last'.identityToken = NullToken]_vars

C18_Witness ==
    /\ last.op = "publicKeyAndIdentityToken"
    /\ last.status = NON_EIP191_SIGNER
    /\ _signer.kind = "foreign"
    /\ signRequests = 2
    /\ _publicKey = NullKey

----------------------------------------------------------------------------
(* Claims exchange *)

ExchangeOps == {"createClaimRequest", "issueClaimRequest",
                "rejectClaimRequest"}
\* the caller is logged in and the token of the call can be generated
ExchangeReady(op) ==
    /\ _did # Undefined
    /\ op = "createClaimRequest" => _userClaims
    /\ op = "issueClaimRequest" => _issuerClaims
PathOf(op) ==
    CASE op = "createClaimRequest" -> "request"
      [] op = "issueClaimRequest" -> "issue"
      [] op = "rejectClaimRequest" -> "reject"

\* C19: with the NATS connection and its codec in place, a createClaimRequest
\* of a logged-in caller with issuer list L publishes one message per entry
\* of L, in order, the i-th to topic L[i].claim.exchange, each carrying the
\* id, token, requester and issuer list of this request, and posts nothing
\* to the cache server, whether or not a cache client is configured.
C19_PublishPerIssuer ==
    [][(/\ claimCall'.op = "createClaimRequest"
        /\ ExchangeReady("createClaimRequest")
        /\ uuids' = uuids + 1
        /\ _natsConnection /\ _jsonCodec) =>
         LET L == claimCall'.issuer
             new == SubSeq(published', Len(published) + 1, Len(published'))
         IN /\ claimCall'.error = "none"
            /\ published' = published \o new
            /\ Len(new) = Len(L)
            /\ \A i \in 1..Len(L) :
                 /\ new[i].topic = <<L[i], "claim", "exchange">>
                 /\ new[i].data.bytes.kind = "request"
                 /\ new[i].data.bytes.id = uuids'
                 /\ new[i].data.bytes.token = claimCall'.token
                 /\ new[i].data.bytes.requester = _did
                 /\ new[i].data.bytes.claimIssuer = L
            /\ mailbox' = mailbox]_vars

C19_Witness ==
    /\ claimCall.op = "createClaimRequest"
    /\ claimCall.error = "none"
    /\ cacheClient
    /\ Len(claimCall.issuer) = 2
    /\ Len(published) = 2
    /\ published[1].topic # published[2].topic
    /\ published[1].data = published[2].data
    /\ published[1].data.bytes.id = 1
    /\ mailbox = <<>>

\* C20: without a NATS connection, a claims exchange call of a logged-in
\* caller whose token can be generated publishes nothing; with a cache
\* client it posts its one message to the entry of the caller's own DID, and
\* without one it throws NATSConnectionNotEstablishedError and posts
\* nothing.
C20_MailboxFallback ==
    [][(/\ claimCall'.op \in ExchangeOps
        /\ claimCall' # claimCall \/ mailbox' # mailbox
        /\ ExchangeReady(claimCall'.op)
        /\ ~_natsConnection) =>
         /\ published' = published
         /\ IF cacheClient
            THEN /\ claimCall'.error = "none"
                 /\ Len(mailbox') = Len(mailbox) + 1
                 /\ SubSeq(mailbox', 1, Len(mailbox)) = mailbox
                 /\ mailbox'[Len(mailbox')].did = _did
                 /\ mailbox'[Len(mailbox')].path = PathOf(claimCall'.op)
                 /\ mailbox'[Len(mailbox')].message.id = claimCall'.id
                 /\ mailbox'[Len(mailbox')].message.requester
                        = claimCall'.requester
            ELSE /\ claimCall'.error = NATSConnectionNotEstablishedError
                 /\ mailbox' = mailbox]_vars

C20_Witness ==
    /\ claimCall.op = "issueClaimRequest"
    /\ claimCall.error = "none"
    /\ ~_natsConnection
    /\ published = <<>>
    /\ Len(mailbox) = 1
    /\ mailbox[1].path = "issue"
    /\ mailbox[1].did = _did
    /\ mailbox[1].message.requester # _did

\* a step is a claims exchange call that sent its message
Sent(op) ==
    /\ claimCall'.op = op
    /\ claimCall'.error = "none"
    /\ published' # published \/ mailbox' # mailbox
\* the messages a step published and posted
NewPublished == SubSeq(published', Len(published) + 1, Len(published'))
NewPosted == SubSeq(mailbox', Len(mailbox) + 1, Len(mailbox'))
\* jsonCodec.decode of published bytes
PublishedMessages(pub) == [i \in 1..Len(pub) |-> pub[i].data.bytes]
PostedMessages(box) == [i \in 1..Len(box) |-> box[i].message]
IssuanceOf(m, id, requester) ==
    /\ m.kind = "issuance"
    /\ m.id = id
    /\ m.requester = requester
    /\ m.claimIssuer = <<_did>>
    /\ m.acceptedBy = _did
RejectionOf(m, id, requester) ==
    /\ m.kind = "rejection"
    /\ m.id = id
    /\ m.requester = requester
    /\ m.isRejected

\* C21 as stated: the issuance of request r of requester R goes to R's own
\* topic or to R's own mailbox entry.
C21_DeliveredToRequester ==
    [][Sent("issueClaimRequest") =>
         /\ \A i \in 1..Len(NewPublished) :
              NewPublished[i].topic = <<claimCall'.requester>>
                                         \o NATS_EXCHANGE_TOPIC
         /\ \A i \in 1..Len(NewPosted) :
              NewPosted[i].did = claimCall'.requester]_vars

\* C21 amended: issueClaimRequest with id r and requesterDID R sends one
\* message carrying id r, requester R, claimIssuer [I] and acceptedBy I, and
\* rejectClaimRequest one carrying id r, requester R and isRejected = true;
\* with the NATS connection and its codec the message is published to topic
\* R.claim.exchange, without a connection it is posted to the cache server
\* under the DID of the issuer I.
C21_IssuanceRoundTrip ==
    [][/\ (Sent("issueClaimRequest") /\ (_natsConnection => _jsonCodec)) =>
            LET pub == PublishedMessages(NewPublished)
                box == PostedMessages(NewPosted)
            IN /\ Len(pub) + Len(box) = 1
               /\ \A i \in 1..Len(pub) :
                    /\ IssuanceOf(pub[i], claimCall'.id, claimCall'.requester)
                    /\ NewPublished[i].topic =
                          <<claimCall'.requester, "claim", "exchange">>
               /\ \A i \in 1..Len(box) :
                    /\ IssuanceOf(box[i], claimCall'.id, claimCall'.requester)
                    /\ NewPosted[i].did = _did
       /\ (Sent("rejectClaimRequest") /\ (_natsConnection => _jsonCodec)) =>
            LET pub == PublishedMessages(NewPublished)
                box == PostedMessages(NewPosted)
            IN /\ Len(pub) + Len(box) = 1
               /\ \A i \in 1..Len(pub) :
                    /\ RejectionOf(pub[i], claimCall'.id, claimCall'.requester)
                    /\ NewPublished[i].topic =
                          <<claimCall'.requester, "claim", "exchange">>
               /\ \A i \in 1..Len(box) :
                    /\ RejectionOf(box[i], claimCall'.id, claimCall'.requester)
                    /\ NewPosted[i].did = _did]_vars

C21_Witness ==
    /\ claimCall.op = "issueClaimRequest"
    /\ claimCall.error = "none"
    /\ _natsConnection /\ _jsonCodec
    /\ Len(published) = 1
    /\ published[1].topic = <<"did:ethr:0xA", "claim", "exchange">>
    /\ published[1].data.bytes.id = 2
    /\ published[1].data.bytes.acceptedBy = MyDID
    /\ published[1].data.bytes.requester = "did:ethr:0xA"

\* the request ids that have left in request messages
RequestIds(pub, box) ==
    {pub[i].data.bytes.id : i \in {j \in 1..Len(pub) :
                                     pub[j].data.bytes.kind = "request"}}
    \cup {box[i].message.id : i \in {j \in 1..Len(box) :
                                       box[j].message.kind = "request"}}

\* C22: a createClaimRequest call puts into its messages an id that no
\* earlier request carried; issueClaimRequest and rejectClaimRequest
\* generate no id and put the id they were given into their message.
C22_FreshRequestId ==
    [][/\ (Sent("createClaimRequest") /\ (_natsConnection => _jsonCodec)) =>
            /\ uuids' = uuids + 1
            /\ claimCall'.id \notin RequestIds(published, mailbox)
            /\ RequestIds(NewPublished, NewPosted) = {claimCall'.id}
       /\ \A op \in {"issueClaimRequest", "rejectClaimRequest"} :
            (Sent(op) /\ (_natsConnection => _jsonCodec)) =>
                /\ uuids' = uuids
                /\ \A i \in 1..Len(NewPublished) :
                     NewPublished[i].data.bytes.id = claimCall'.id
                /\ \A i \in 1..Len(NewPosted) :
                     NewPosted[i].message.id = claimCall'.id]_vars

C22_Witness ==
    /\ claimCall.op = "createClaimRequest"
    /\ claimCall.error = "none"
    /\ claimCall.id = 2
    /\ _natsConnection /\ _jsonCodec
    /\ Len(published) = 2
    /\ published[1].data.bytes.id = 1
    /\ published[2].data.bytes.id = 2

Descendants(domain) ==
    {eventLog[i] : i \in {j \in 1..Len(eventLog) :
                             /\ EndsWith(eventLog[j], domain)
                             /\ Len(eventLog[j]) > Len(domain)}}
\* the segment of a descendant immediately below the domain
NextSegment(name, domain) == name[Len(name) - Len(domain)]
FirstLevelChildren(domain) ==
    {NextSegment(name, domain) : name \in Descendants(domain)}
\* a list without repetition of exactly the labels of S
ListsExactly(list, S) == NoDup(list) /\ Range(list) = S

\* C24: for every event log, getSubdomains of an initialised registry
\* returns a list that holds each immediate next segment below the domain
\* exactly once and nothing else.
C24_UniqueFirstLevelChildren ==
    (scan.status # "none" /\ ensRegistry) =>
        /\ scan.status = "ok"
        /\ ListsExactly(scan.value, FirstLevelChildren(scan.domain))

\* C25 as stated: events a.P, b.P and roles.a.P scanned under P yield the
\* set {a, b, roles}.
C25_YieldsRolesToo ==
    (/\ scan.status # "none"
     /\ ensRegistry
     /\ scan.domain = OrgApps
     /\ eventLog = <<App, NewApp, AppRoles>>) =>
        /\ scan.status = "ok"
        /\ ListsExactly(scan.value, {"a", "b", Roles})

\* C25 amended: events a.P, b.P and roles.a.P, in any order, scanned under P
\* yield a list naming exactly a and b, each once; roles, the label of a
\* deeper descendant, is not in it.
C25_ExampleScan ==
    (/\ scan.status # "none"
     /\ ensRegistry
     /\ scan.domain = OrgApps
     /\ Len(eventLog) = 3
     /\ Range(eventLog) = {App, NewApp, AppRoles}) =>
        /\ scan.status = "ok"
        /\ ListsExactly(scan.value, {"a", "b"})
        /\ Roles \notin Range(scan.value)

C25_Witness ==
    /\ ensRegistry
    /\ eventLog = <<App, NewApp, AppRoles>>
    /\ scan = [domain |-> OrgApps, status |-> "ok", value |-> <<"a", "b">>]

\* a DID document read that asked the cache first
ThroughCache ==
    /\ readCall.op \in {"getDidDocument", "DidRegistry.getDidDocument"}
    /\ readCall.reads # <<>>
    /\ readCall.reads[1] = "cacheClient.getDidDocument"
RawRead ==
    \E i \in 1..Len(readCall.reads) :
        readCall.reads[i] \in {"resolver.read", "operator.read"}

\* C26: a DID document read through the cache makes the raw read only after
\* the cache answered not found (404); after any other cache failure the
\* call fails with that failure and makes no raw read.
C26_FallbackOnlyOnNotFound ==
    ThroughCache =>
        /\ RawRead => cacheReply = "404"
        /\ cacheReply \notin {"ok", "404"} =>
             /\ readCall.error = CacheError(cacheReply)
             /\ ~RawRead

TypeDispatched ==
    {"getDefinition", "getRolesByNamespace", "getENSTypesByOwner",
     "getENSTypesBySearchPhrase"}
\* the types an operation dispatches on
AppliesTo(op) ==
    IF op \in {"getRolesByNamespace", "getENSTypesBySearchPhrase"}
    THEN {Organization, Application}
    ELSE ENSNamespaceTypes
Inapplicable == readCall.op \in TypeDispatched
                /\ readCall.type \notin AppliesTo(readCall.op)
InapplicableOwnership == call.op = "validateOwnership"
                         /\ call.type \notin ENSNamespaceTypes

\* C28 as stated: with an inapplicable type each of the five operations
\* fails with the unsupported-type error and reads nothing, with or without
\* a cache client.
C28_AlwaysUnsupportedType ==
    /\ Inapplicable =>
         /\ readCall.error = ENSTypeNotSupportedError
         /\ readCall.reads = <<>>
    /\ InapplicableOwnership =>
         /\ pc = "error"
         /\ error.name = "ENS type not supported"
         /\ lookups = {}

\* C28 amended: with a cache client, getDefinition (given a type),
\* getRolesByNamespace, getENSTypesByOwner and getENSTypesBySearchPhrase fail
\* with ENSTypeNotSupportedError and read nothing for a type they do not
\* dispatch on; without a cache client the last three fail with
\* CacheClientNotProvidedError and read nothing, and getDefinition, also when
\* no type is given, ignores the type and reads the resolver (or fails with
\* ENSResolverNotInitializedError).  validateOwnership fails with "ENS type
\* not supported" for a connected caller and "User not logged in" otherwise;
\* it looks up no owner and writes nothing.
C28_UnsupportedType ==
    /\ Inapplicable =>
         IF cacheClient /\ readCall.type # Undefined
         THEN /\ readCall.error = ENSTypeNotSupportedError
              /\ readCall.reads = <<>>
         ELSE IF readCall.op # "getDefinition"
         THEN /\ readCall.error = IF cacheClient
                                  THEN ENSTypeNotSupportedError
                                  ELSE CacheClientNotProvidedError
              /\ readCall.reads = <<>>
         ELSE IF _ensResolver
         THEN /\ readCall.error = "none"
              /\ readCall.reads = <<"ensResolver.text">>
         ELSE /\ readCall.error = ENSResolverNotInitializedError
              /\ readCall.reads = <<>>
    /\ InapplicableOwnership =>
         /\ pc = "error"
         /\ error.name = IF address = Undefined
                         THEN "User not logged in"
                         ELSE "ENS type not supported"
         /\ lookups = {}
         /\ applied = <<>>

C28_Witness ==
    /\ cacheClient
    /\ readCall.op = "getENSTypesBySearchPhrase"
    /\ readCall.type = Roles
    /\ readCall.error = ENSTypeNotSupportedError
    /\ readCall.reads = <<>>

\* C27: validateOwnership looks up the owner of every namespace of its
\* list, also when an earlier one is already not owned, and whatever the
\* order in which the lookups complete it returns the not-owned namespaces
\* of the list, all of them, in list order.
C27_AllLookupsIssued ==
    (pc = "done" /\ call.op = "validateOwnership") =>
        LET namespaces == OwnershipNamespaces(call.namespace, call.type)
        IN /\ lookups = Range(namespaces)
           /\ returned = SelectSeq(namespaces,
                                   LAMBDA ns : getOwner(ns) # address)

C27_Witness ==
    /\ pc = "done" /\ call.op = "validateOwnership"
    /\ call.namespace = NewOrg /\ call.type = Organization
    /\ lookups = {Iam, NewOrg, <<Roles>> \o NewOrg, <<Application>> \o NewOrg}
    /\ returned = << <<Roles>> \o NewOrg, <<Application>> \o NewOrg, NewOrg >>

TransferOps == {"changeOrgOwnership", "changeAppOwnership"}
DeleteOps == {"deleteOrganization", "deleteApplication"}

\* C29: while changeOrgOwnership or changeAppOwnership executes, whenever a
\* transfer step is started and whenever it is applied, the connected
\* address owns the parent of the namespace the step transfers.
C29_ParentHeldAtTransfer ==
    [][(pc = "exec" /\ call.op \in TransferOps) =>
         /\ \A i \in inFlight' \ inFlight :
              getOwner(Tail(steps[i].path)) = address
         /\ applied' # applied =>
              \A i \in inFlight \ inFlight' :
                  getOwner(Tail(steps[i].path)) = address]_vars

C29_Witness ==
    /\ call.op = "changeOrgOwnership" /\ pc = "exec"
    /\ PathsOf(applied) = <<OrgRole2, OrgRole1, OrgRoles>>
    /\ inFlight = {4}
    /\ steps[4].path = OrgApps
    /\ owner[OrgRoles] = NewOwner
    /\ owner[Org] = address

\* the namespaces an executing plan acts on
PlanPaths == {steps[i].path : i \in 1..Len(steps)}
Exists(p) == getOwner(p) # emptyAddress

\* C30: in every state of an executing deleteOrganization or
\* deleteApplication, aborted ones included, every namespace of the plan
\* that still exists and whose parent is a namespace of the plan has a
\* parent that still exists.
C30_NoOrphanInPlan ==
    (call.op \in DeleteOps /\ pc \in {"exec", "failed", "done"}
       /\ ~call.returnSteps) =>
        \A p \in PlanPaths :
            (Exists(p) /\ Tail(p) \in PlanPaths) => Exists(Tail(p))

C30_Witness ==
    /\ call.op = "deleteOrganization" /\ pc = "failed"
    /\ PathsOf(applied) = <<OrgRole2, OrgRole1, OrgRoles>>
    /\ ~Exists(OrgRoles) /\ ~Exists(OrgRole1)
    /\ Exists(OrgApps) /\ Exists(Org)

\* the nodes of an organization plan: N, its two anchors and the role
\* children the scan under roles.N enumerated
OrgPlanNodes(N) ==
    {N, <<Application>> \o N, <<Roles>> \o N}
    \cup {<<r>> \o <<Roles>> \o N :
             r \in Range(getSubdomains(<<Roles>> \o N).value)}

\* C31: the plan of changeOrgOwnership and of deleteOrganization has exactly
\* one step for each of N, apps.N, roles.N and the enumerated role children
\* and no other step; when the plan has been executed to completion all of
\* these nodes belong to newOwner, respectively none of them exists.
C31_CompletedPlan ==
    (call.op \in {"changeOrgOwnership", "deleteOrganization"} /\ Started) =>
        LET N == call.namespace
        IN /\ Range(PathsOf(steps)) = OrgPlanNodes(N)
           /\ NoDup(PathsOf(steps))
           /\ getSubdomains(<<Roles>> \o N).status = "ok" =>
                OrgPlanNodes(N) = {N, <<Application>> \o N, <<Roles>> \o N}
                    \cup {<<r>> \o <<Roles>> \o N :
                             r \in FirstLevelChildren(<<Roles>> \o N)}
           /\ (pc = "done" /\ ~call.returnSteps) =>
                \A p \in OrgPlanNodes(N) :
                    IF call.op = "changeOrgOwnership"
                    THEN getOwner(p) = call.newOwner
                    ELSE ~Exists(p)

C31_Witness ==
    /\ call.op = "deleteOrganization" /\ pc = "done" /\ ~call.returnSteps
    /\ eventLog = <<OrgRole1, OrgRole2>>
    /\ \A p \in {Org, OrgApps, OrgRoles, OrgRole1, OrgRole2} : ~Exists(p)
    /\ Len(steps) = 5

----------------------------------------------------------------------------
(* C32 *)

\* C32: of the publicKeyAndIdentityToken calls that overlap, only one
\* derivation sends signature requests to the signer, and all the calls
\* that returned obtained the same pair
C32_OneDerivationWhenOverlapping ==
    \A s \in Tasks : \A t \in Tasks \ {s} :
        tasks[t].overlapped =>
            /\ ~(tasks[s].requests > 0 /\ tasks[t].requests > 0)
            /\ (tasks[s].pc = "done" /\ tasks[t].pc = "done") =>
                   /\ tasks[s].publicKey = tasks[t].publicKey
                   /\ tasks[s].identityToken = tasks[t].identityToken
----------------------------------------------------------------------------
(* C33, C34 *)

\* run k of init() returns in this step
Returns(k) ==
    /\ cycles[k].pc = "initializers"
    /\ cycles'[k].pc = "done"

\* what the services hold is what the signer service holds
ServicesCurrent ==
    /\ "AssetsService" \in Range(_servicesInitializers) => _owner = _address
    /\ "DidRegistry" \in Range(_servicesInitializers) =>
          _registryDid = DidOf(_chainName, _address)

\* C33: every run of init() runs the registered initializers once each, in
\* registration order, after the address and the chain were refreshed, and
\* returns only when all of them have run; when a run returns, the owner of
\* AssetsService and the DID of DidRegistry are those of the signer
\* service's current address
C33_InitializersInOrder ==
    /\ [](\A k \in DOMAIN cycles :
            /\ IsPrefix(cycles[k].ran, _servicesInitializers)
            /\ cycles[k].ran # <<>> => cycles[k].refreshed)
    /\ [][\A k \in DOMAIN cycles :
            Returns(k) =>
                /\ cycles[k].refreshed
                /\ cycles[k].ran = _servicesInitializers
                /\ ServicesCurrent']_vars

ReconnectHandlers(e) ==
    {i \in DOMAIN _walletEventListeners :
        /\ _walletEventListeners[i].event = e
        /\ _walletEventListeners[i].cb = "accChangedHandler"}

\* the closeConnection-then-init runs this step started
StartedRuns ==
    {k \in DOMAIN cycles' \ DOMAIN cycles :
        cycles'[k].cb = "accChangedHandler"}

\* C34: every wallet event has at most one registered reconnect handler,
\* and one emitted event starts no more than one closeConnection-then-init
\* run
C34_OneHandlerPerEvent ==
    /\ [](\A e \in ProviderEvents : Cardinality(ReconnectHandlers(e)) <= 1)
    /\ [][Cardinality(StartedRuns) <= 1]_vars

----------------------------------------------------------------------------
(* C35 *)

\* C35: with the registry initialised, getSubdomains returns a list for
\* every event log, the logs holding a name no deeper than the queried
\* domain included
C35_ListForEveryLog ==
    (scan.status # "none" /\ ensRegistry) =>
        scan.status = "ok"
----------------------------------------------------------------------------
(* C36 *)

----------------------------------------------------------------------------
(* C37 *)

\* C37: without a DID the claim request operations fail with the
\* not-logged-in error, with no token created or issued and nothing
\* published or posted; without an address validateOwnership and the delete
\* and transfer planners fail before any owner is looked up and no plan is
\* built
C37_NotLoggedIn ==
    /\ (claimCall.op # "none" /\ _did = Undefined) =>
          /\ claimCall.error = "User not logged in"
          /\ claimCall.token = <<>>
          /\ uuids = 0
          /\ published = <<>>
          /\ mailbox = <<>>
    /\ (call.op # "none" /\ address = Undefined) =>
          /\ pc = "error"
          /\ error.name = "User not logged in"
          /\ lookups = {}
          /\ steps = <<>>
          /\ returned = <<>>

C37_Witness ==
    /\ _did = Undefined
    /\ address = Undefined
    /\ claimCall.op = "issueClaimRequest"
    /\ claimCall.error = "User not logged in"
    /\ call.op = "deleteOrganization"
    /\ pc = "error"
----------------------------------------------------------------------------
(* C38 *)

\* the endpoint the last call wrote into the document, if it wrote one
Written ==
    IF service # <<>> /\ "update" \in Range(publication.effects)
    THEN service[Len(service)].serviceEndpoint
    ELSE <<>>

\* C38: a token whose signature does not verify is refused with an error,
\* nothing saved and nothing updated; a call that returns a url has saved
\* the token before it updated the document, and the url it returns is the
\* service endpoint it wrote into the document
C38_VerifiedThenSavedThenUpdated ==
    publication.op # "none" =>
        /\ ~verifySignature(publication.token, publication.token.iss)
             /\ _userClaims /\ _jwt =>
               /\ publication.error = "Incorrect signature"
               /\ publication.effects = <<"verify">>
               /\ publication.token \notin Range(ipfsStore)
        /\ publication.returned \notin {<<>>, <<"null">>} =>
               /\ publication.effects = <<"verify", "save", "update">>
               /\ Written = publication.returned
----------------------------------------------------------------------------
(* C39 *)

\* C39: updateDocument for a DID other than the signer's own submits an
\* update only for the document of an asset the signer owns, and otherwise
\* fails with the not-controlled-document error without submitting
C39_OnlyOwnedAssets ==
    (documentUpdate.op # "none" /\ documentUpdate.did # documentUpdate.signer)
        => IF /\ documentUpdate.did \in DOMAIN AssetOwner
              /\ AssetOwner[documentUpdate.did] = documentUpdate.signer
           THEN documentUpdate.submitted
           ELSE /\ ~documentUpdate.submitted
                /\ documentUpdate.error =
                      CAN_NOT_UPDATE_NOT_CONTROLLED_DOCUMENT
====
